---- MODULE Spec2Model ----
(***************************************************************************)
(* Model of the iCloud Reminders CLI core: the Writer and the Sync Engine  *)
(* over the local record cache (specification Spec), the Authenticator's   *)
(* EnsureSession cascade (specifications SpecAuth and SpecLegacyAuth) and   *)
(* the retry helper (specification SpecRetry).                             *)
(*                                                                         *)
(* Conventions.  A Go pointer to a string or an integer is a set with no  *)
(* element (nil) or one element (the value).  A Go string that the code    *)
(* indexes (record identifiers, list names) is a sequence of one-character *)
(* strings; opaque strings are TLA+ strings.  A decoded JSON object is a   *)
(* record whose optional keys are pointers in the above sense.             *)
(***************************************************************************)
EXTENDS Integers, Sequences, FiniteSets, TLC

VARIABLES
    cache,      \* Engine.Cache: the in-memory cache shared by Sync Engine and Writer
    file,       \* content of the cache file on disk
    net,        \* the network calls issued by the operation that ran last, in order
    last,       \* what the operation that ran last was given and what it returned
    nops,       \* number of operations run so far
    unsynced,   \* history: the record names AddRemindersBatch put in the cache and
                \* no Sync has folded a provider record for since
    sessionFile, \* the session file on disk
    authn,      \* the Authenticator of the running process
    call,       \* the EnsureSession (or doWithRetry) call in progress and its position
    wire        \* the requests, sleeps and saves of that call, in order

writerVars == <<cache, file, net, last, nops, unsynced>>

authVars == <<sessionFile, authn, call, wire>>

vars == <<cache, file, net, last, nops, unsynced, sessionFile, authn, call, wire>>

\* ------------------------------------------------------------------ bounds

MaxOps == 3

\* ------------------------------------------------------------------ pointers

NilPtr == {}

Ptr(v) == {v}

Deref(p) == CHOOSE v \in p : TRUE

IsNil(p) == p = {}

\* ------------------------------------------------------------------ strings

\* toLower of sync.go, on one byte: only 'A'..'Z' are shifted.
LowerChar(c) ==
    CASE c = "A" -> "a"
      [] c = "B" -> "b"
      [] c = "C" -> "c"
      [] c = "H" -> "h"
      [] c = "S" -> "s"
      [] c = "R" -> "r"
      [] OTHER -> c

toLower(s) == [i \in 1..Len(s) |-> LowerChar(s[i])]

\* index of the last '/' of rid, 0 when there is none
LastSlash(rid) ==
    LET idx == {i \in 1..Len(rid) : rid[i] = "/"}
    IN IF idx = {} THEN 0 ELSE CHOOSE i \in idx : \A j \in idx : j <= i

\* the part of rid after its last '/', the whole of rid when it has none
uuidPart(rid) == SubSeq(rid, LastSlash(rid) + 1, Len(rid))


TrimSpace(s) ==
    LET idx == {i \in 1..Len(s) : s[i] # " "}
    IN IF idx = {} THEN <<>>
       ELSE SubSeq(s, CHOOSE i \in idx : \A j \in idx : i <= j,
                      CHOOSE i \in idx : \A j \in idx : j <= i)

\* ------------------------------------------------------------------ dates

MsPerDay == 86400000

\* time.UnixMilli(ts).UTC().Format("2006-01-02") for the days the model visits
DateOfDay(d) ==
    CASE d = 0 -> "1970-01-01"
      [] d = 1 -> "1970-01-02"
      [] d = 2 -> "1970-01-03"
      [] d = 3 -> "1970-01-04"
      [] d = 4 -> "1970-01-05"
      [] d = 5 -> "1970-01-06"
      [] d = 6 -> "1970-01-07"
      [] OTHER -> "later"

TsToStr(tsMs) == IF tsMs = 0 THEN "" ELSE DateOfDay(tsMs \div MsPerDay)

\* time.Parse("2006-01-02", s): the timestamp, or an error for any other text
StrToTs(dateStr) ==
    CASE dateStr = "1970-01-01" -> [ts |-> 0, err |-> FALSE]
      [] dateStr = "1970-01-02" -> [ts |-> MsPerDay, err |-> FALSE]
      [] dateStr = "1970-01-03" -> [ts |-> 2 * MsPerDay, err |-> FALSE]
      [] OTHER -> [ts |-> 0, err |-> TRUE]

\* ------------------------------------------------------------------ codec
\* A wire document is [enc, text]: enc says what the base64 text decodes to
\* ("gzip": a gzip stream, "plain": other bytes, "invalid": not base64), text
\* is the decoded (and for gzip, decompressed) byte string.  The byte "^"
\* stands for any byte of the ranges 00-1f and 7f-9f.

NoDoc == [enc |-> "plain", text |-> <<>>]

IsPrintable(c) == c # "^"

\* length of the longest prefix of text made of printable bytes
RECURSIVE PrintablePrefix(_)
PrintablePrefix(text) ==
    IF text = <<>> \/ ~IsPrintable(Head(text)) THEN 0
    ELSE 1 + PrintablePrefix(Tail(text))

\* the first match of printableRe that is still two characters long when trimmed
RECURSIVE FirstPrintableRun(_)
FirstPrintableRun(text) ==
    IF text = <<>> THEN <<>>
    ELSE LET n == PrintablePrefix(text)
         IN IF n = 0 THEN FirstPrintableRun(Tail(text))
            ELSE LET s == TrimSpace(SubSeq(text, 1, n))
                     rest == SubSeq(text, n + 1, Len(text))
                 IN IF n >= 2 /\ Len(s) >= 2 THEN s ELSE FirstPrintableRun(rest)

ExtractTitle(td) ==
    CASE td.text = <<>> -> <<>>
      [] td.enc = "invalid" -> <<>>
      [] td.enc = "plain" -> TrimSpace(td.text)
      [] OTHER -> FirstPrintableRun(td.text)

\* The gzip-compressed message EncodeTitle builds: the title bytes framed by
\* the tag and operation bytes of the message.  This stands for titles of
\* fewer than 32 bytes, whose length byte is a control byte; the byte-level
\* codec below covers the others.
EncodeTitle(title) == [enc |-> "gzip", text |-> <<"^">> \o title \o <<"^">>]

\* ------------------------------------------------------------------ cache

NoId == <<>>

NewCache ==
    [Reminders |-> <<>>, Lists |-> <<>>, SyncToken |-> NilPtr,
     OwnerID |-> NilPtr, UpdatedAt |-> NilPtr]

\* a ReminderData with every optional field nil
ReminderData(title) ==
    [Title |-> title, Completed |-> FALSE, CompletionDate |-> NilPtr,
     Due |-> NilPtr, Priority |-> 0, Notes |-> NilPtr, ListRef |-> NilPtr,
     ParentRef |-> NilPtr, ModifiedTS |-> NilPtr, ChangeTag |-> NilPtr]

MapPut(m, k, v) == [x \in DOMAIN m \cup {k} |-> IF x = k THEN v ELSE m[x]]

MapDelete(m, k) == [x \in DOMAIN m \ {k} |-> m[x]]

NoFile == [state |-> "absent", content |-> NewCache]

\* Cache.Save: stamps UpdatedAt, then truncates and rewrites the file.
\* outcome: "ok", "mkdir" (MkdirAll fails), "open" (the file cannot be opened),
\* "write" (the write fails after the file was truncated).
Save(c, f, now, outcome) ==
    IF outcome = "mkdir" THEN [c |-> c, file |-> f, err |-> TRUE]
    ELSE LET stamped == [c EXCEPT !.UpdatedAt = Ptr(now)]
         IN CASE outcome = "ok" ->
                   [c |-> stamped, file |-> [state |-> "written", content |-> stamped],
                    err |-> FALSE]
              [] outcome = "open" -> [c |-> stamped, file |-> f, err |-> TRUE]
              [] OTHER ->
                   [c |-> stamped, file |-> [state |-> "truncated", content |-> NewCache],
                    err |-> TRUE]

\* variant: only the reminders are read back
Load_RemindersOnly(f) ==
    IF f.state = "written" THEN [NewCache EXCEPT !.Reminders = f.content.Reminders]
    ELSE NewCache

\* cache.Load: the file's content, an empty cache when it cannot be read or parsed
Load(f) == IF f.state = "written" THEN f.content ELSE NewCache

\* ------------------------------------------------------------------ lookups

\* variant: the prefix is compared as it is written
FindReminderByID_CaseSensitive(c, partialID) ==
    LET hits == {rid \in DOMAIN c.Reminders :
                    /\ Len(uuidPart(rid)) >= Len(partialID)
                    /\ SubSeq(uuidPart(rid), 1, Len(partialID)) = partialID}
    IN IF hits = {} THEN {NoId} ELSE hits

\* The identifiers FindReminderByID may return: the loop over the map returns
\* the first match in iteration order, which Go leaves unspecified.
FindReminderByID(c, partialID) ==
    LET partial == toLower(partialID)
        hits == {rid \in DOMAIN c.Reminders :
                    /\ Len(uuidPart(rid)) >= Len(partial)
                    /\ toLower(SubSeq(uuidPart(rid), 1, Len(partial))) = partial}
    IN IF hits = {} THEN {NoId} ELSE hits

\* variant: a name that matches no list falls back on any cached list
FindListByName_Fallback(c, name) ==
    LET hits == {id \in DOMAIN c.Lists : toLower(c.Lists[id]) = toLower(name)}
    IN IF hits # {} THEN hits
       ELSE IF DOMAIN c.Lists # {} THEN DOMAIN c.Lists ELSE {NoId}

\* Engine.FindListByName: the lists whose name equals `name` when both are
\* lower-cased (the loop returns the first in the map's iteration order)
FindListByName(c, name) ==
    LET hits == {id \in DOMAIN c.Lists : toLower(c.Lists[id]) = toLower(name)}
    IN IF hits = {} THEN {NoId} ELSE hits


\* ------------------------------------------------------------------ protocol client
\* What the provider answers to one request: the transport fails (ok = FALSE),
\* or an HTTP status comes back with a body that is JSON (json = TRUE, val the
\* decoded object) or is not.

Err(msg) == [msg |-> msg, code |-> "", reason |-> ""]

NoResult ==
    [error |-> NilPtr, records |-> NilPtr, zones |-> NilPtr,
     created_count |-> NilPtr, titles |-> NilPtr]

\* Client.post: the decoded body, or an error when the request fails, the
\* status is outside 200..299 or the body is not JSON.
post(resp) ==
    CASE ~resp.ok -> [result |-> NoResult, err |-> Ptr(Err("request failed"))]
      [] resp.status < 200 \/ resp.status >= 300 ->
            [result |-> NoResult, err |-> Ptr(Err("API error"))]
      [] ~resp.json -> [result |-> NoResult, err |-> Ptr(Err("JSON parse error"))]
      [] OTHER -> [result |-> resp.val, err |-> NilPtr]

Zone == "Reminders"

\* Client.GetOwnerID: the owner of the Reminders zone, else of the first zone
GetOwnerID(resp) ==
    LET r == post(resp)
        zones == IF IsNil(r.result.zones) THEN <<>> ELSE Deref(r.result.zones)
        named == {i \in 1..Len(zones) :
                     zones[i].zoneName = Zone /\ ~IsNil(zones[i].ownerRecordName)}
    IN CASE ~IsNil(r.err) -> [id |-> "", err |-> Ptr(Err("zones/list failed"))]
         [] named # {} ->
               [id |-> Deref(zones[CHOOSE i \in named : \A j \in named : i <= j].ownerRecordName),
                err |-> NilPtr]
         [] Len(zones) > 0 /\ ~IsNil(zones[1].ownerRecordName) ->
               [id |-> Deref(zones[1].ownerRecordName), err |-> NilPtr]
         [] OTHER -> [id |-> "", err |-> Ptr(Err("Reminders zone not found"))]

\* the requests as they go on the wire
ZonesListCall == [path |-> "zones/list", owner |-> "", syncToken |-> "",
                  operations |-> <<>>, atomic |-> FALSE]

\* variant: the fetch never carries a cursor
ChangesZoneCall_NoCursor(ownerID, syncToken) ==
    [path |-> "changes/zone", owner |-> ownerID, syncToken |-> "",
     operations |-> <<>>, atomic |-> FALSE]

ChangesZoneCall(ownerID, syncToken) ==
    [path |-> "changes/zone", owner |-> ownerID, syncToken |-> syncToken,
     operations |-> <<>>, atomic |-> FALSE]

ModifyCall(ownerID, operations) ==
    [path |-> "records/modify", owner |-> ownerID, syncToken |-> "",
     operations |-> operations, atomic |-> TRUE]

\* variant: a failed call is handed on as post returns it, without an error key
ModifyRecords_Raw(resp) == post(resp).result

\* Client.ModifyRecords: never an error; a failed call becomes {"error": ...}
ModifyRecords(resp) ==
    LET r == post(resp)
    IN IF ~IsNil(r.err) THEN [NoResult EXCEPT !.error = r.err] ELSE r.result

\* The provider's answers to records/modify, by kind: the transport fails, a
\* status outside 2xx, a body that is not JSON, every operation accepted (each
\* record with its new change tag, or without one), the batch rejected in-band
\* (a 200 whose records carry serverErrorCode and reason), no record at all;
\* "blank" is an acceptance whose records carry an empty change tag.
HttpFailure(status) == [ok |-> status # 0, status |-> status, json |-> FALSE, val |-> NoResult]

HttpOK(val) == [ok |-> TRUE, status |-> 200, json |-> TRUE, val |-> val]

ResponseRecord(name, tag, code) ==
    [recordName |-> name, recordChangeTag |-> tag, serverErrorCode |-> code,
     reason |-> IF IsNil(code) THEN NilPtr ELSE Ptr("rejected")]

ModifyResponse(kind, ops) ==
    CASE kind = "transport" -> HttpFailure(0)
      [] kind = "http503" -> HttpFailure(503)
      [] kind = "notjson" -> [ok |-> TRUE, status |-> 200, json |-> FALSE, val |-> NoResult]
      [] kind = "accepted" ->
            HttpOK([NoResult EXCEPT !.records = Ptr([i \in 1..Len(ops) |->
                       ResponseRecord(ops[i].recordName, Ptr("w1"), NilPtr)])])
      [] kind = "blank" ->
            HttpOK([NoResult EXCEPT !.records = Ptr([i \in 1..Len(ops) |->
                       ResponseRecord(ops[i].recordName, Ptr(""), NilPtr)])])
      [] kind = "untagged" ->
            HttpOK([NoResult EXCEPT !.records = Ptr([i \in 1..Len(ops) |->
                       ResponseRecord(ops[i].recordName, NilPtr, NilPtr)])])
      [] kind = "rejected" ->
            HttpOK([NoResult EXCEPT !.records = Ptr([i \in 1..Len(ops) |->
                       ResponseRecord(ops[i].recordName, NilPtr, Ptr("CONFLICT"))])])
      [] OTHER -> HttpOK([NoResult EXCEPT !.records = Ptr(<<>>)])

\* ------------------------------------------------------------------ writer

errResult(e) == [NoResult EXCEPT !.error = Ptr(e)]

\* variant: record-level errors are not looked at
checkRecordErrors_None(result) == NilPtr

\* checkRecordErrors: the first record of the result that has a serverErrorCode
checkRecordErrors(result) ==
    IF IsNil(result.records) THEN NilPtr
    ELSE LET records == Deref(result.records)
             bad == {i \in 1..Len(records) :
                        /\ ~IsNil(records[i].serverErrorCode)
                        /\ Deref(records[i].serverErrorCode) # ""}
         IN IF bad = {} THEN NilPtr
            ELSE LET i == CHOOSE k \in bad : \A j \in bad : k <= j
                 IN Ptr([msg |-> "CloudKit error",
                         code |-> Deref(records[i].serverErrorCode),
                         reason |-> IF IsNil(records[i].reason) THEN ""
                                    ELSE Deref(records[i].reason)])

\* Writer.ownerID: the cached owner, else the one zones/list names (then cached)
ownerID(c, zl) ==
    IF ~IsNil(c.OwnerID) /\ Deref(c.OwnerID) # ""
    THEN [c |-> c, id |-> Deref(c.OwnerID), err |-> NilPtr, calls |-> <<>>]
    ELSE LET o == GetOwnerID(zl)
         IN IF ~IsNil(o.err)
            THEN [c |-> c, id |-> "", err |-> o.err, calls |-> <<ZonesListCall>>]
            ELSE [c |-> [c EXCEPT !.OwnerID = Ptr(o.id)], id |-> o.id,
                  err |-> NilPtr, calls |-> <<ZonesListCall>>]

PriorityMap(priority) ==
    CASE priority = "high" -> 1
      [] priority = "medium" -> 5
      [] priority = "low" -> 9
      [] OTHER -> 0

NoRef == NilPtr

\* buildCreateOp: the create operation for a fresh record name
buildCreateOp(recordName, title, listID, parentRef, dueDate, priority, notes) ==
    [operationType |-> "create",
     recordName |-> recordName,
     recordChangeTag |-> NilPtr,
     TitleDocument |-> Ptr(EncodeTitle(title)),
     Completed |-> Ptr(0),
     CompletionDate |-> NilPtr,
     List |-> IF listID # NoId THEN Ptr(listID) ELSE NoRef,
     ParentReminder |-> IF parentRef # NoId THEN Ptr(parentRef) ELSE NoRef,
     DueDate |-> IF dueDate # "" /\ ~StrToTs(dueDate).err
                 THEN Ptr(StrToTs(dueDate).ts) ELSE NilPtr,
     Priority |-> IF priority # 0 THEN Ptr(priority) ELSE NilPtr,
     NotesDocument |-> IF notes # <<>> THEN Ptr(EncodeTitle(notes)) ELSE NilPtr]

\* the update operation of CompleteReminder
CompleteOp(fullID, tag, now) ==
    [operationType |-> "update", recordName |-> fullID, recordChangeTag |-> Ptr(tag),
     TitleDocument |-> NilPtr, Completed |-> Ptr(1), CompletionDate |-> Ptr(now),
     List |-> NoRef, ParentReminder |-> NoRef, DueDate |-> NilPtr,
     Priority |-> NilPtr, NotesDocument |-> NilPtr]

\* the delete operation of DeleteReminder
DeleteOp(fullID, tag) ==
    [operationType |-> "delete", recordName |-> fullID, recordChangeTag |-> Ptr(tag),
     TitleDocument |-> NilPtr, Completed |-> NilPtr, CompletionDate |-> NilPtr,
     List |-> NoRef, ParentReminder |-> NoRef, DueDate |-> NilPtr,
     Priority |-> NilPtr, NotesDocument |-> NilPtr]


\* What Ran records of a step in `last`: the operation, its input, the map the
\* handler returned, the identifier it resolved, the names it generated, the
\* save it made, the time of the call and the kind of the provider's answer to
\* the modify call (meaningful when `net` holds a records/modify call).
\*
\* What a handler leaves behind: the cache, the cache file, the calls it made,
\* the map it returned, the identifier it resolved, the record names it
\* generated and whether it called Cache.Save.
Outcome(c, f, calls, result, fullID, created, saved) ==
    [cache |-> c, file |-> f, net |-> calls, result |-> result,
     fullID |-> fullID, created |-> created, saved |-> saved]

\* variant: the response's change tag is not read
ResponseTag_None(result) == NilPtr

\* the change tag of the first record of a modify response, nil when it has none
ResponseTag(result) ==
    IF IsNil(result.records) \/ Len(Deref(result.records)) = 0 THEN NilPtr
    ELSE Deref(result.records)[1].recordChangeTag

\* lines 86-120 of AddReminder: the cache entry, the save, the result
AddReminderEcho(c, f, calls, result, in, env, listID, parentRef) ==
    LET tag == ResponseTag(result)
        rd == [ReminderData(in.title) EXCEPT
                 !.Priority = PriorityMap(in.priority),
                 !.Due = IF in.dueDate # "" THEN Ptr(in.dueDate) ELSE NilPtr,
                 !.Notes = IF in.notes # <<>> THEN Ptr(in.notes) ELSE NilPtr,
                 !.ListRef = IF listID # NoId THEN Ptr(listID) ELSE NilPtr,
                 !.ParentRef = IF parentRef # NoId THEN Ptr(parentRef) ELSE NilPtr,
                 !.ModifiedTS = Ptr(env.now),
                 !.ChangeTag = IF ~IsNil(tag) /\ Deref(tag) # "" THEN tag ELSE NilPtr]
        sv == Save([c EXCEPT !.Reminders = MapPut(@, env.uuid[1], rd)], f, env.now, env.sv)
    IN Outcome(sv.c, sv.file, calls, result, NoId, <<env.uuid[1]>>,
               IF sv.err THEN "failed" ELSE "ok")

\* lines 69-84 of AddReminder: build, submit, check
AddReminderSubmit(c, f, calls, owner, in, env, listID, parentRef) ==
    LET op == buildCreateOp(env.uuid[1], in.title, listID, parentRef, in.dueDate,
                            PriorityMap(in.priority), in.notes)
        result == ModifyRecords(ModifyResponse(env.mr, <<op>>))
        sent == Append(calls, ModifyCall(owner, <<op>>))
        rerr == checkRecordErrors(result)
    IN IF ~IsNil(rerr)
       THEN Outcome(c, f, sent, errResult(Deref(rerr)), NoId, <<env.uuid[1]>>, "none")
       ELSE AddReminderEcho(c, f, sent, result, in, env, listID, parentRef)

\* variant: the parent's list is not looked at
InheritList_Never(c, listID, parentRef) == listID

\* the list a new reminder goes to: the named one, else the parent's
InheritList(c, listID, parentRef) ==
    IF parentRef # NoId /\ listID = NoId /\ ~IsNil(c.Reminders[parentRef].ListRef)
    THEN Deref(c.Reminders[parentRef].ListRef)
    ELSE listID

\* Writer.AddReminder: the set of its possible outcomes
AddReminder(c0, f, in, env) ==
    LET o == ownerID(c0, env.zl)
        lists == IF in.listName # <<>> THEN FindListByName(o.c, in.listName) ELSE {NoId}
        parents == IF in.parentID # <<>> THEN FindReminderByID(o.c, in.parentID) ELSE {NoId}
    IN IF ~IsNil(o.err)
       THEN {Outcome(o.c, f, o.calls, errResult(Deref(o.err)), NoId, <<>>, "none")}
       ELSE { CASE in.listName # <<>> /\ lp[1] = NoId ->
                     Outcome(o.c, f, o.calls, errResult(Err("list not found")),
                             NoId, <<>>, "none")
                [] in.parentID # <<>> /\ lp[2] = NoId ->
                     Outcome(o.c, f, o.calls, errResult(Err("parent reminder not found")),
                             NoId, <<>>, "none")
                [] OTHER ->
                     AddReminderSubmit(o.c, f, o.calls, o.id, in, env,
                                       InheritList(o.c, lp[1], lp[2]), lp[2])
              : lp \in lists \X parents }

\* variant: the batch entries get a change tag
BatchEcho_Tagged(reminders, titles, names, listID, parentRef, now) ==
    [id \in DOMAIN reminders \cup {names[i] : i \in 1..Len(titles)} |->
        IF id \in {names[i] : i \in 1..Len(titles)}
        THEN [ReminderData(titles[CHOOSE i \in 1..Len(titles) : names[i] = id]) EXCEPT
                 !.ModifiedTS = Ptr(now), !.ChangeTag = Ptr("w1")]
        ELSE reminders[id]]

\* lines 180-205 of AddRemindersBatch: the cache entries, the save, the result
RECURSIVE BatchEcho(_, _, _, _, _, _)
BatchEcho(reminders, titles, names, listID, parentRef, now) ==
    IF titles = <<>> THEN reminders
    ELSE BatchEcho(
           MapPut(reminders, Head(names),
                  [ReminderData(Head(titles)) EXCEPT
                     !.ModifiedTS = Ptr(now),
                     !.ListRef = IF listID # NoId THEN Ptr(listID) ELSE NilPtr,
                     !.ParentRef = IF parentRef # NoId THEN Ptr(parentRef) ELSE NilPtr]),
           Tail(titles), Tail(names), listID, parentRef, now)

\* lines 155-205 of AddRemindersBatch: build, submit, check, echo
AddRemindersBatchSubmit(c, f, calls, owner, in, env, listID, parentRef) ==
    LET names == SubSeq(env.uuid, 1, Len(in.titles))
        ops == [i \in 1..Len(in.titles) |->
                  buildCreateOp(names[i], in.titles[i], listID, parentRef, "", 0, <<>>)]
        result == ModifyRecords(ModifyResponse(env.mr, ops))
        sent == Append(calls, ModifyCall(owner, ops))
        rerr == checkRecordErrors(result)
        sv == Save([c EXCEPT !.Reminders =
                        BatchEcho(@, in.titles, names, listID, parentRef, env.now)],
                   f, env.now, env.sv)
    IN IF ~IsNil(rerr)
       THEN Outcome(c, f, sent, errResult(Deref(rerr)), NoId, names, "none")
       ELSE Outcome(sv.c, sv.file, sent,
                    [result EXCEPT !.created_count = Ptr(Len(in.titles)),
                                   !.titles = Ptr(in.titles)],
                    NoId, names, IF sv.err THEN "failed" ELSE "ok")

\* Writer.AddRemindersBatch: the set of its possible outcomes
AddRemindersBatch(c0, f, in, env) ==
    LET o == ownerID(c0, env.zl)
        lists == IF in.listName # <<>> THEN FindListByName(o.c, in.listName) ELSE {NoId}
        parents == IF in.parentID # <<>> THEN FindReminderByID(o.c, in.parentID) ELSE {NoId}
    IN CASE in.titles = <<>> ->
              {Outcome(c0, f, <<>>, errResult(Err("no titles provided")), NoId, <<>>, "none")}
         [] ~IsNil(o.err) ->
              {Outcome(o.c, f, o.calls, errResult(Deref(o.err)), NoId, <<>>, "none")}
         [] OTHER ->
              { CASE in.listName # <<>> /\ lp[1] = NoId ->
                       Outcome(o.c, f, o.calls, errResult(Err("list not found")),
                               NoId, <<>>, "none")
                  [] in.parentID # <<>> /\ lp[2] = NoId ->
                       Outcome(o.c, f, o.calls,
                               errResult(Err("parent reminder not found")),
                               NoId, <<>>, "none")
                  [] OTHER ->
                       AddRemindersBatchSubmit(o.c, f, o.calls, o.id, in, env,
                                               InheritList(o.c, lp[1], lp[2]), lp[2])
                : lp \in lists \X parents }


\* variant: the echo keeps the change tag the cache had
CompleteEcho_KeepsTag(c, f, calls, result, fullID, env) ==
    LET rd == c.Reminders[fullID]
        done == [rd EXCEPT !.Completed = TRUE, !.CompletionDate = Ptr(TsToStr(env.now))]
        sv == Save([c EXCEPT !.Reminders[fullID] = done], f, env.now, env.sv)
    IN Outcome(sv.c, sv.file, calls, result, fullID, <<>>,
               IF sv.err THEN "failed" ELSE "ok")

\* lines 244-260 of CompleteReminder: the local echo of an accepted update
CompleteEcho(c, f, calls, result, fullID, env) ==
    LET tag == ResponseTag(result)
        rd == c.Reminders[fullID]
        done == [rd EXCEPT !.Completed = TRUE,
                           !.CompletionDate = Ptr(TsToStr(env.now)),
                           !.ChangeTag = IF IsNil(tag) THEN @ ELSE tag]
        sv == Save([c EXCEPT !.Reminders[fullID] = done], f, env.now, env.sv)
    IN Outcome(sv.c, sv.file, calls, result, fullID, <<>>,
               IF sv.err THEN "failed" ELSE "ok")

\* lines 225-261 of CompleteReminder: build, submit, echo unless "error" is set
CompleteSubmit(c, f, calls, owner, fullID, env) ==
    LET op == CompleteOp(fullID, Deref(c.Reminders[fullID].ChangeTag), env.now)
        result == ModifyRecords(ModifyResponse(env.mr, <<op>>))
        sent == Append(calls, ModifyCall(owner, <<op>>))
    IN IF IsNil(result.error)
       THEN CompleteEcho(c, f, sent, result, fullID, env)
       ELSE Outcome(c, f, sent, result, fullID, <<>>, "none")

\* variant: the check tests for an absent tag only
MissingChangeTag_NilOnly(c, fullID) ==
    \/ fullID \notin DOMAIN c.Reminders
    \/ IsNil(c.Reminders[fullID].ChangeTag)

\* the check of lines 220-223 and 276-279: no cached change tag, or an empty one
MissingChangeTag(c, fullID) ==
    \/ fullID \notin DOMAIN c.Reminders
    \/ IsNil(c.Reminders[fullID].ChangeTag)
    \/ Deref(c.Reminders[fullID].ChangeTag) = ""

StaleError == Err("missing change tag, try running sync first")

\* Writer.CompleteReminder: the set of its possible outcomes
CompleteReminder(c0, f, reminderID, env) ==
    LET o == ownerID(c0, env.zl)
    IN IF ~IsNil(o.err)
       THEN {Outcome(o.c, f, o.calls, errResult(Deref(o.err)), NoId, <<>>, "none")}
       ELSE { CASE fullID = NoId ->
                     Outcome(o.c, f, o.calls, errResult(Err("reminder not found")),
                             NoId, <<>>, "none")
                [] MissingChangeTag(o.c, fullID) ->
                     Outcome(o.c, f, o.calls, errResult(StaleError), fullID, <<>>, "none")
                [] OTHER -> CompleteSubmit(o.c, f, o.calls, o.id, fullID, env)
              : fullID \in FindReminderByID(o.c, reminderID) }

\* variant: the echo removes the subtasks of the reminder with it
DeleteEcho_Cascade(c, f, calls, result, fullID, env) ==
    LET kept == {id \in DOMAIN c.Reminders :
                   id # fullID /\ c.Reminders[id].ParentRef # Ptr(fullID)}
        sv == Save([c EXCEPT !.Reminders = [id \in kept |-> c.Reminders[id]]],
                   f, env.now, env.sv)
    IN Outcome(sv.c, sv.file, calls, result, fullID, <<>>,
               IF sv.err THEN "failed" ELSE "ok")

\* lines 298-304 of DeleteReminder: the local echo of an accepted delete
DeleteEcho(c, f, calls, result, fullID, env) ==
    LET sv == Save([c EXCEPT !.Reminders = MapDelete(@, fullID)], f, env.now, env.sv)
    IN Outcome(sv.c, sv.file, calls, result, fullID, <<>>,
               IF sv.err THEN "failed" ELSE "ok")

\* lines 281-305 of DeleteReminder: build, submit, echo unless "error" is set
DeleteSubmit(c, f, calls, owner, fullID, env) ==
    LET op == DeleteOp(fullID, Deref(c.Reminders[fullID].ChangeTag))
        result == ModifyRecords(ModifyResponse(env.mr, <<op>>))
        sent == Append(calls, ModifyCall(owner, <<op>>))
    IN IF IsNil(result.error)
       THEN DeleteEcho(c, f, sent, result, fullID, env)
       ELSE Outcome(c, f, sent, result, fullID, <<>>, "none")

\* Writer.DeleteReminder: the set of its possible outcomes
DeleteReminder(c0, f, reminderID, env) ==
    LET o == ownerID(c0, env.zl)
    IN IF ~IsNil(o.err)
       THEN {Outcome(o.c, f, o.calls, errResult(Deref(o.err)), NoId, <<>>, "none")}
       ELSE { CASE fullID = NoId ->
                     Outcome(o.c, f, o.calls, errResult(Err("reminder not found")),
                             NoId, <<>>, "none")
                [] MissingChangeTag(o.c, fullID) ->
                     Outcome(o.c, f, o.calls, errResult(StaleError), fullID, <<>>, "none")
                [] OTHER -> DeleteSubmit(o.c, f, o.calls, o.id, fullID, env)
              : fullID \in FindReminderByID(o.c, reminderID) }


\* ------------------------------------------------------------------ sync engine
\* A record of a changes page: recordName, recordType, the server's deleted
\* flag, recordChangeTag, modified.timestamp and the fields, each a pointer
\* (nil when the record does not carry the field or carries another type).

NoFields ==
    [Name |-> NilPtr, TitleDocument |-> NilPtr, NotesDocument |-> NilPtr,
     Completed |-> NilPtr, CompletionDate |-> NilPtr, DueDate |-> NilPtr,
     List |-> NilPtr, ParentReminder |-> NilPtr, Deleted |-> NilPtr,
     Priority |-> NilPtr]

getFieldString(fields, key) == IF IsNil(fields[key]) THEN <<>> ELSE Deref(fields[key])

getFieldDoc(fields, key) == IF IsNil(fields[key]) THEN NoDoc ELSE Deref(fields[key])

getFieldInt(fields, key) == IF IsNil(fields[key]) THEN 0 ELSE Deref(fields[key])

getFieldInt64(fields, key) == IF IsNil(fields[key]) THEN 0 ELSE Deref(fields[key])

getFieldRefName(fields, key) == IF IsNil(fields[key]) THEN NoId ELSE Deref(fields[key])

\* lines 124-135 of processRecords: a list record
FoldList(c, r, deleted) ==
    LET name == getFieldString(r.fields, "Name")
        title == IF name = <<>> THEN ExtractTitle(getFieldDoc(r.fields, "TitleDocument"))
                 ELSE name
    IN CASE deleted -> [c EXCEPT !.Lists = MapDelete(@, r.recordName)]
         [] title # <<>> -> [c EXCEPT !.Lists = MapPut(@, r.recordName, title)]
         [] OTHER -> c

Untitled == <<"(", "u", ")">>

\* variant: a record for a cached reminder raises the cached priority
FoldReminder_Accumulate(c, r, deleted) ==
    LET t == ExtractTitle(getFieldDoc(r.fields, "TitleDocument"))
        rd == [ReminderData(IF t = <<>> THEN Untitled ELSE t) EXCEPT
                 !.Priority = IF r.recordName \in DOMAIN c.Reminders
                              THEN c.Reminders[r.recordName].Priority + 1
                              ELSE getFieldInt(r.fields, "Priority")]
    IN IF deleted THEN [c EXCEPT !.Reminders = MapDelete(@, r.recordName)]
       ELSE [c EXCEPT !.Reminders = MapPut(@, r.recordName, rd)]

\* lines 137-190 of processRecords: a reminder record
FoldReminder(c, r, deleted) ==
    LET t == ExtractTitle(getFieldDoc(r.fields, "TitleDocument"))
        due == getFieldInt64(r.fields, "DueDate")
        cd == getFieldInt64(r.fields, "CompletionDate")
        listRef == getFieldRefName(r.fields, "List")
        parentRef == getFieldRefName(r.fields, "ParentReminder")
        notes == ExtractTitle(getFieldDoc(r.fields, "NotesDocument"))
        rd == [Title |-> IF t = <<>> THEN Untitled ELSE t,
               Completed |-> getFieldInt(r.fields, "Completed") # 0,
               CompletionDate |-> IF cd # 0 THEN Ptr(TsToStr(cd)) ELSE NilPtr,
               Due |-> IF due # 0 THEN Ptr(TsToStr(due)) ELSE NilPtr,
               Priority |-> getFieldInt(r.fields, "Priority"),
               Notes |-> IF notes # <<>> THEN Ptr(notes) ELSE NilPtr,
               ListRef |-> IF listRef # NoId THEN Ptr(listRef) ELSE NilPtr,
               ParentRef |-> IF parentRef # NoId THEN Ptr(parentRef) ELSE NilPtr,
               ModifiedTS |-> r.modified,
               ChangeTag |-> IF ~IsNil(r.recordChangeTag) /\ Deref(r.recordChangeTag) # ""
                             THEN r.recordChangeTag ELSE NilPtr]
    IN IF deleted THEN [c EXCEPT !.Reminders = MapDelete(@, r.recordName)]
       ELSE [c EXCEPT !.Reminders = MapPut(@, r.recordName, rd)]

\* variant: the records of a page are folded last to first
RECURSIVE processRecords_Backwards(_, _)
processRecords_Backwards(c, records) ==
    IF records = <<>> THEN c
    ELSE LET r == Head(records)
             deleted == r.deleted \/ getFieldInt(r.fields, "Deleted") # 0
             rest == processRecords_Backwards(c, Tail(records))
         IN CASE r.recordType \in {"ReminderList", "List"} -> FoldList(rest, r, deleted)
              [] r.recordType = "Reminder" -> FoldReminder(rest, r, deleted)
              [] OTHER -> rest

\* Engine.processRecords: fold the records of one page, in order
RECURSIVE processRecords(_, _)
processRecords(c, records) ==
    IF records = <<>> THEN c
    ELSE LET r == Head(records)
             deleted == r.deleted \/ getFieldInt(r.fields, "Deleted") # 0
             folded == CASE r.recordType \in {"ReminderList", "List"} -> FoldList(c, r, deleted)
                         [] r.recordType = "Reminder" -> FoldReminder(c, r, deleted)
                         [] OTHER -> c
         IN processRecords(folded, Tail(records))

\* lines 52-85 of Sync: the fetch loop over the provider's successive answers.
\* left = TRUE says the loop asked for more answers than `answers` holds.
RECURSIVE SyncLoop(_, _, _, _)
SyncLoop(c, owner, answers, calls) ==
    IF answers = <<>> THEN [c |-> c, calls |-> calls, err |-> NilPtr, left |-> TRUE,
                            unread |-> 0]
    ELSE LET syncToken == IF IsNil(c.SyncToken) THEN "" ELSE Deref(c.SyncToken)
             sent == Append(calls, ChangesZoneCall(owner, syncToken))
             data == post(Head(answers))
             zones == IF IsNil(data.result.zones) THEN <<>> ELSE Deref(data.result.zones)
             folded == processRecords(c, zones[1].records)
             next == IF zones[1].syncToken # ""
                     THEN [folded EXCEPT !.SyncToken = Ptr(zones[1].syncToken)]
                     ELSE folded
         IN CASE ~IsNil(data.err) ->
                   [c |-> c, calls |-> sent, err |-> Ptr(Err("changes/zone failed")),
                    left |-> FALSE, unread |-> Len(answers) - 1]
              [] Len(zones) = 0 ->
                   [c |-> c, calls |-> sent, err |-> NilPtr, left |-> FALSE,
                    unread |-> Len(answers) - 1]
              [] ~zones[1].moreComing ->
                   [c |-> next, calls |-> sent, err |-> NilPtr, left |-> FALSE,
                    unread |-> Len(answers) - 1]
              [] OTHER -> SyncLoop(next, owner, Tail(answers), sent)

\* variant: a forced Sync keeps the cache it has
StartCache_Keep(c0, force) == c0

\* lines 30-37 of Sync: a forced Sync starts from a new, empty cache
StartCache(c0, force) == IF force THEN NewCache ELSE c0

\* Engine.Sync.  The outcome is undefined (the empty set) when the provider's
\* answers do not match the fetches the loop makes.
Sync(c0, f, force, env) ==
    LET start == StartCache(c0, force)
        needOwner == IsNil(start.OwnerID) \/ Deref(start.OwnerID) = ""
        o == GetOwnerID(env.zl)
        first == IF needOwner THEN <<ZonesListCall>> ELSE <<>>
        owned == IF needOwner THEN [start EXCEPT !.OwnerID = Ptr(o.id)] ELSE start
        loop == SyncLoop(owned, Deref(owned.OwnerID), env.answers, first)
        sv == Save(loop.c, f, env.now, env.sv)
    IN CASE needOwner /\ ~IsNil(o.err) ->
              {Outcome(start, f, first, errResult(Err("get owner ID")), NoId, <<>>, "none")}
         [] loop.left \/ loop.unread # 0 -> {}
         [] ~IsNil(loop.err) ->
              {Outcome(loop.c, f, loop.calls, errResult(Deref(loop.err)), NoId, <<>>, "none")}
         [] sv.err ->
              {Outcome(sv.c, sv.file, loop.calls, errResult(Err("save cache")),
                       NoId, <<>>, "failed")}
         [] OTHER -> {Outcome(sv.c, sv.file, loop.calls, NoResult, NoId, <<>>, "ok")}


\* ------------------------------------------------------------------ session state
\* SessionData, the Authenticator and the session file.  Header and token
\* values are strings, "" when absent; cookies are a set of name/value pairs;
\* CreatedAt is the number of the call that stamped it (0: never stamped).

NoSession ==
    [CKBaseURL |-> "", SessionToken |-> "", TrustToken |-> "", AccountCountry |-> "",
     SessionID |-> "", Scnt |-> "", DSID |-> "", Cookies |-> {}, CreatedAt |-> 0]

\* auth.New: an empty cookie jar, no tokens, zero SessionData
New ==
    [sessionID |-> "", scnt |-> "", authToken |-> "", trustToken |-> "",
     jar |-> {}, data |-> NoSession]

NoSessionFile == [state |-> "absent", data |-> NoSession]

NoErr == [kind |-> "nil", status |-> 0, msg |-> ""]

\* no call in progress
NoCall ==
    [pc |-> "idle", impl |-> "", n |-> 0, force |-> FALSE, needs2FA |-> FALSE,
     i |-> 0, maxRetries |-> 0, probed |-> "none", file0 |-> NoSessionFile,
     err |-> NoErr, out |-> NoSession]

\* ------------------------------------------------------------------ environment
\* The inputs and the provider's answers the model draws from.

R1 == <<"R", "/", "a", "1">>

L1 == <<"L", "/", "c", "1">>

\* record names NewUUIDString can produce (upper-case hexadecimal)
NewIds == {<<"A", "2">>, <<"B", "3">>}

ShopName == <<"S", "h">>

Milk == <<"h", "i">>

Eggs == <<"y", "o">>

\* the time of the n-th operation: one operation a day, some time after midnight
Clock(n) == (n + 1) * MsPerDay + 1

NoInput ==
    [title |-> <<>>, titles |-> <<>>, listName |-> <<>>, dueDate |-> "",
     priority |-> "", notes |-> <<>>, parentID |-> <<>>, reminderID |-> <<>>,
     force |-> FALSE]

CreateInputs ==
    {[NoInput EXCEPT !.title = Milk, !.listName = <<"s", "h">>],
     [NoInput EXCEPT !.title = Milk, !.parentID = <<"a">>],
     [NoInput EXCEPT !.title = Eggs, !.listName = <<"n", "o">>],
     [NoInput EXCEPT !.title = Eggs, !.parentID = <<"c">>],
     [NoInput EXCEPT !.title = Eggs, !.dueDate = "1970-01-03", !.priority = "high",
                     !.notes = <<"n", "b">>]}

BatchInputs ==
    {[NoInput EXCEPT !.titles = <<>>],
     [NoInput EXCEPT !.titles = <<Milk>>],
     [NoInput EXCEPT !.titles = <<Milk, Eggs>>, !.listName = <<"S", "H">>],
     [NoInput EXCEPT !.titles = <<Eggs>>, !.parentID = <<"a", "1">>]}

Partials == {<<"A">>, <<"b">>, <<"c">>}

ModifyKinds ==
    {"transport", "http503", "notjson", "accepted", "blank", "untagged", "rejected"}

SaveOutcomes == {"ok", "write"}

ZonesListAnswers ==
    {HttpFailure(503),
     HttpOK([NoResult EXCEPT !.zones =
                Ptr(<<[zoneName |-> Zone, ownerRecordName |-> Ptr("_o1")]>>)]),
     HttpOK([NoResult EXCEPT !.zones = Ptr(<<>>)])}

\* sequences of n distinct record names that are not cached yet
FreshNames(c, n) ==
    {u \in [1..n -> NewIds \ DOMAIN c.Reminders] : \A i, j \in 1..n : i # j => u[i] # u[j]}

Page(records, more, token) ==
    HttpOK([NoResult EXCEPT !.zones =
               Ptr(<<[records |-> records, moreComing |-> more, syncToken |-> token]>>)])

ListRecord(id, name, at) ==
    [recordName |-> id, recordType |-> "List", deleted |-> FALSE,
     recordChangeTag |-> Ptr("s1"), modified |-> Ptr(at),
     fields |-> [NoFields EXCEPT !.Name = Ptr(name)]]

\* the provider's record for a reminder: for a cached one, what the cache says of it
ReminderRecord(c, id, deleted, at) ==
    [recordName |-> id, recordType |-> "Reminder", deleted |-> deleted,
     recordChangeTag |-> Ptr("s1"), modified |-> Ptr(at),
     fields |-> IF id \in DOMAIN c.Reminders
                THEN [NoFields EXCEPT
                        !.TitleDocument = Ptr(EncodeTitle(c.Reminders[id].Title)),
                        !.Completed = Ptr(IF c.Reminders[id].Completed THEN 1 ELSE 0),
                        !.List = c.Reminders[id].ListRef,
                        !.ParentReminder = c.Reminders[id].ParentRef]
                ELSE [NoFields EXCEPT !.TitleDocument = Ptr(EncodeTitle(Milk)),
                                      !.Completed = Ptr(0), !.List = Ptr(L1)]]

\* the answers of the provider to the successive fetches of one Sync
SyncAnswers(c, at) ==
    {<<HttpFailure(503)>>,
     <<HttpOK([NoResult EXCEPT !.zones = Ptr(<<>>)])>>,
     <<Page(<<>>, FALSE, "k1")>>,
     <<Page(<<ListRecord(L1, ShopName, at), ReminderRecord(c, R1, FALSE, at)>>, FALSE, "k1")>>,
     <<Page(<<ListRecord(L1, ShopName, at)>>, TRUE, "k1"),
       Page(<<ReminderRecord(c, R1, FALSE, at)>>, FALSE, "k2")>>}
    \cup {<<Page(<<ReminderRecord(c, id, d, at)>>, FALSE, "k2")>> :
             id \in DOMAIN c.Reminders, d \in BOOLEAN}

\* ------------------------------------------------------------------ operations

\* zones/list is answered only when it is asked
OwnerAnswers(c) ==
    IF IsNil(c.OwnerID) \/ Deref(c.OwnerID) = "" THEN ZonesListAnswers
    ELSE {HttpFailure(503)}

Envs(c, n) ==
    [zl : OwnerAnswers(c), mr : ModifyKinds, sv : SaveOutcomes, now : {Clock(nops)},
     uuid : FreshNames(c, n), answers : {<<>>}]

\* the record names of the pages among the provider's answers
FoldedNames(answers) ==
    UNION {LET data == post(answers[i])
           IN IF ~IsNil(data.err) \/ IsNil(data.result.zones)
                 \/ Len(Deref(data.result.zones)) = 0
              THEN {}
              ELSE {Deref(data.result.zones)[1].records[k].recordName :
                       k \in 1..Len(Deref(data.result.zones)[1].records)}
           : i \in 1..Len(answers)}

Range(seq) == {seq[i] : i \in 1..Len(seq)}

Ran(op, in, env, out, folded) ==
    /\ UNCHANGED authVars
    /\ unsynced' = ((unsynced \cup (IF op = "batch" THEN Range(out.created) ELSE {}))
                      \cap DOMAIN out.cache.Reminders) \ folded
    /\ cache' = out.cache
    /\ file' = out.file
    /\ net' = out.net
    /\ last' = [op |-> op, in |-> in, result |-> out.result, fullID |-> out.fullID,
                created |-> out.created, saved |-> out.saved, now |-> Clock(nops),
                answer |-> env.mr]
    /\ nops' = nops + 1

Create ==
    /\ nops < MaxOps
    /\ \E in \in CreateInputs : \E env \in Envs(cache, 1) :
         \E out \in AddReminder(cache, file, in, env) : Ran("create", in, env, out, {})

CreateBatch ==
    /\ nops < MaxOps
    /\ \E in \in BatchInputs : \E env \in Envs(cache, Len(in.titles)) :
         \E out \in AddRemindersBatch(cache, file, in, env) : Ran("batch", in, env, out, {})

Complete ==
    /\ nops < MaxOps
    /\ \E id \in Partials : \E env \in Envs(cache, 0) :
         \E out \in CompleteReminder(cache, file, id, env) :
            Ran("complete", [NoInput EXCEPT !.reminderID = id], env, out, {})

Delete ==
    /\ nops < MaxOps
    /\ \E id \in Partials : \E env \in Envs(cache, 0) :
         \E out \in DeleteReminder(cache, file, id, env) :
            Ran("delete", [NoInput EXCEPT !.reminderID = id], env, out, {})

DoSync ==
    /\ nops < MaxOps
    /\ \E force \in BOOLEAN :
         \E zl \in OwnerAnswers(IF force THEN NewCache ELSE cache) : \E sv \in SaveOutcomes :
         \E answers \in SyncAnswers(cache, Clock(nops)) :
           LET env == [zl |-> zl, mr |-> "empty", sv |-> sv, now |-> Clock(nops),
                       uuid |-> <<>>, answers |-> answers]
           IN \E out \in Sync(cache, file, force, env) :
                Ran("sync", [NoInput EXCEPT !.force = force], env, out,
                    IF out.result.error = Ptr(Err("get owner ID")) THEN {}
                    ELSE FoldedNames(answers))

Init ==
    /\ cache = NewCache
    /\ file = NoFile
    /\ net = <<>>
    /\ last = [op |-> "new", in |-> NoInput, result |-> NoResult, fullID |-> NoId,
               created |-> <<>>, saved |-> "none", now |-> 0, answer |-> "empty"]
    /\ nops = 0
    /\ unsynced = {}
    /\ sessionFile = NoSessionFile
    /\ authn = New
    /\ call = NoCall
    /\ wire = <<>>

Next == Create \/ CreateBatch \/ Complete \/ Delete \/ DoSync

Spec == Init /\ [][Next]_vars

\* ------------------------------------------------------------------ properties
\* Every step of Spec is one whole operation: `last'` describes the operation
\* of the step, the unprimed variables the state it started from.

\* the step's operation sent a records/modify request
IssuedModify(calls) == \E i \in 1..Len(calls) : calls[i].path = "records/modify"

\* the reminder is cached without a usable change tag
Tagless(c, id) ==
    id \in DOMAIN c.Reminders /\ c.Reminders[id].ChangeTag \in {NilPtr, Ptr("")}

\* the records of a returned map
RecordsOf(result) == IF IsNil(result.records) THEN <<>> ELSE Deref(result.records)

\* the returned map is a 2xx body with a record that carries a serverErrorCode
HasRecordError(result) ==
    /\ IsNil(result.error)
    /\ \E i \in 1..Len(RecordsOf(result)) :
          RecordsOf(result)[i].serverErrorCode \notin {NilPtr, Ptr("")}

C2_RecordErrorLeavesCache ==
    [][ (last'.op \in {"complete", "delete"} /\ IssuedModify(net')
         /\ HasRecordError(last'.result))
        => (cache' = cache /\ file' = file /\ last'.saved = "none") ]_vars

\* C3 (as stated): a Create, CreateBatch, Complete or Delete whose modify call
\* fails at transport or HTTP level leaves the cached reminders and the cache
\* file untouched.
C3_FailedCallLeavesCache ==
    [][ (last'.op \in {"create", "batch", "complete", "delete"} /\ IssuedModify(net')
         /\ last'.answer \in {"transport", "http503"})
        => (cache'.Reminders = cache.Reminders /\ file' = file
            /\ last'.saved = "none") ]_vars

\* C4: a Create whose modify call is answered with a record-level error
\* returns that error with the provider's code and reason, leaves the cached
\* reminders, lists and sync token as they were (the owner id that ownerID
\* discovered before the call stays in memory), holds no entry for the new
\* record name and writes no file.
C4_CreateRecordError ==
    [][ (last'.op = "create" /\ IssuedModify(net') /\ last'.answer = "rejected")
        => /\ last'.result = [NoResult EXCEPT !.error =
                 Ptr([msg |-> "CloudKit error", code |-> "CONFLICT", reason |-> "rejected"])]
           /\ [cache' EXCEPT !.OwnerID = cache.OwnerID] = cache
           /\ \A i \in 1..Len(last'.created) :
                 last'.created[i] \notin DOMAIN cache'.Reminders
           /\ file' = file
           /\ last'.saved = "none" ]_vars

\* C4 witness: a Create was answered with a record-level error
C4_Witness ==
    /\ last.op = "create"
    /\ IssuedModify(net)
    /\ last.answer = "rejected"
    /\ Len(last.created) = 1
    /\ ~IsNil(last.result.error)

\* a 2xx answer to records/modify whose records carry no error
Accepted == {"accepted", "blank", "untagged"}

\* C5: a Create with a list name that the provider accepts with a change tag
\* adds exactly one reminder, with the title given, the id of the named list,
\* not completed and with the tag of the response; a Complete of that reminder
\* right after it sends an update carrying that tag and, when the provider
\* accepts it, leaves the reminder completed on the date of the call.
C5_CreateThenComplete ==
    [][ /\ (last'.op = "create" /\ IssuedModify(net') /\ last'.answer = "accepted"
            /\ last'.in.listName # <<>>)
           => LET id == last'.created[1]
              IN /\ id \notin DOMAIN cache.Reminders
                 /\ DOMAIN cache'.Reminders = DOMAIN cache.Reminders \cup {id}
                 /\ \A r \in DOMAIN cache.Reminders :
                       cache'.Reminders[r] = cache.Reminders[r]
                 /\ cache'.Reminders[id].Title = last'.in.title
                 /\ \E l \in DOMAIN cache.Lists :
                       /\ toLower(cache.Lists[l]) = toLower(last'.in.listName)
                       /\ cache'.Reminders[id].ListRef = Ptr(l)
                 /\ cache'.Reminders[id].Completed = FALSE
                 /\ cache'.Reminders[id].ChangeTag = RecordsOf(last'.result)[1].recordChangeTag
                 /\ cache'.Reminders[id].ChangeTag \notin {NilPtr, Ptr("")}
        /\ (last.op = "create" /\ IssuedModify(net) /\ last.answer = "accepted"
            /\ last.in.listName # <<>>
            /\ last'.op = "complete" /\ last'.fullID = last.created[1])
           => /\ Len(net') = 1
              /\ net'[1].path = "records/modify"
              /\ Len(net'[1].operations) = 1
              /\ net'[1].operations[1].operationType = "update"
              /\ net'[1].operations[1].recordName = last.created[1]
              /\ net'[1].operations[1].recordChangeTag
                    = RecordsOf(last.result)[1].recordChangeTag
              /\ last'.answer \in Accepted
                 => /\ cache'.Reminders[last.created[1]].Completed = TRUE
                    /\ cache'.Reminders[last.created[1]].CompletionDate
                          = Ptr(DateOfDay(nops + 1))
      ]_vars

\* C5 witness: Sync, Create in the named list, Complete of the new reminder,
\* all accepted
C5_Witness ==
    /\ last.op = "complete"
    /\ last.answer = "accepted"
    /\ last.fullID \in NewIds
    /\ last.fullID \in DOMAIN cache.Reminders
    /\ cache.Reminders[last.fullID].Completed
    /\ cache.Reminders[last.fullID].Title = Milk
    /\ cache.Reminders[last.fullID].ListRef = Ptr(L1)
    /\ cache.Reminders[last.fullID].CompletionDate = Ptr("1970-01-04")

\* C6: a reminder that AddRemindersBatch put in the cache has no change tag
\* as long as no Sync folded a provider record for it, and Complete and Delete
\* on it return the missing-change-tag error without a records/modify request.
C6_BatchNeedsSync ==
    [][ /\ \A id \in unsynced' :
              id \in DOMAIN cache'.Reminders /\ IsNil(cache'.Reminders[id].ChangeTag)
        /\ (last'.op \in {"complete", "delete"} /\ last'.fullID \in unsynced)
           => /\ last'.result = [NoResult EXCEPT !.error =
                                    Ptr(Err("missing change tag, try running sync first"))]
              /\ ~IssuedModify(net')
              /\ last'.fullID \in unsynced'
      ]_vars

\* C6 witness: a Delete of a reminder of a batch was refused before any Sync
\* folded its record
C6_Witness ==
    /\ last.op = "delete"
    /\ last.fullID \in unsynced
    /\ last.fullID \in DOMAIN cache.Reminders
    /\ ~IsNil(last.result.error)
    /\ ~IssuedModify(net)

\* ------------------------------------------------------------------ authenticator
\* Two generations of the Authenticator: the SRP handshake of go/auth/auth.go
\* ("srp") and the password sign-in of unnamed/part_001 ("legacy").  A process
\* makes one EnsureSession call on a fresh Authenticator; every request of the
\* call is one step.

\* the calls a run of the model makes
MaxCalls == 2

\* the attempt budget fullAuth gives doWithRetry for the sign-in
SigninRetries == 3

\* the cap of the backoff delay, in seconds
MaxDelay == 30

PlainErr(msg) == [kind |-> "plain", status |-> 0, msg |-> msg]

\* httpError: an error that carries an HTTP status
httpError(status, msg) == [kind |-> "http", status |-> status, msg |-> msg]

\* variant: every status counts as transient
retryableHTTPStatus_Any(code) == TRUE

retryableHTTPStatus(code) == code \in {429, 500, 502, 503, 504}

\* The body of the loop of doWithRetry after fn returned err in round i:
\* return it, or sleep and go round again.
RetryDecision(maxRetries, i, err) ==
    CASE err.kind = "nil" -> "return"
      [] err.kind = "http" /\ ~retryableHTTPStatus(err.status) -> "return"
      [] err.kind # "http" /\ i = maxRetries -> "return"
      [] OTHER -> "sleep"

\* the delay of round i: 1s, 2s, 4s, ... capped
Delay(i) == IF 2^i > MaxDelay THEN MaxDelay ELSE 2^i

\* What goes over the wire, and what the call does besides: a request with the
\* session headers and tokens it carries and the status it was answered with
\* (0: no answer), a sleep of doWithRetry, a saveSession.
Request(to, status, sessionID, scnt, token, trust) ==
    [kind |-> "request", to |-> to, status |-> status, sessionID |-> sessionID,
     scnt |-> scnt, token |-> token, trust |-> trust, delay |-> 0]

Slept(delay) ==
    [kind |-> "sleep", to |-> "", status |-> 0, sessionID |-> "", scnt |-> "",
     token |-> "", trust |-> "", delay |-> delay]

Saved(outcome) ==
    [kind |-> "save", to |-> outcome, status |-> 0, sessionID |-> "", scnt |-> "",
     token |-> "", trust |-> "", delay |-> 0]

\* An answer: the status (0: the transport failed), the response headers, the
\* cookies it sets, whether the body decodes, and the dsid and the storage URL
\* of an accountLogin body (nil when the body lacks them).
Answer(status) ==
    [status |-> status, sessionID |-> "", scnt |-> "", token |-> "", trust |-> "",
     country |-> "", cookies |-> {}, json |-> TRUE, dsid |-> NilPtr, url |-> NilPtr]

\* the cookie jar after a response set `cookies`
SetCookies(jar, cookies) ==
    {c \in jar : \A d \in cookies : d.name # c.name} \cup cookies

Received(a, ans) ==
    IF ans.status = 0 THEN a ELSE [a EXCEPT !.jar = SetCookies(@, ans.cookies)]

restoreCookies(a, cookies) == [a EXCEPT !.jar = SetCookies(@, cookies)]

extractCookies(a) == a.jar

sessionTokenFromCookies(a) ==
    IF \E c \in a.jar : c.name = "X-APPLE-DS-WEB-SESSION-TOKEN"
    THEN (CHOOSE c \in a.jar : c.name = "X-APPLE-DS-WEB-SESSION-TOKEN").value
    ELSE ""

loadSessionFile(f) == [data |-> f.data, err |-> f.state # "written"]

\* saveSession: outcome "ok", "mkdir" (MkdirAll fails, nothing written) or
\* "write" (WriteFile fails and leaves an unreadable file)
saveSession(a, f, outcome) ==
    CASE outcome = "ok" -> [file |-> [state |-> "written", data |-> a.data], err |-> FALSE]
      [] outcome = "mkdir" -> [file |-> f, err |-> TRUE]
      [] OTHER -> [file |-> [state |-> "corrupt", data |-> NoSession], err |-> TRUE]

\* variant: the saved session is not copied into the Authenticator
Restore_Empty(impl, a, saved) == restoreCookies(a, saved.Cookies)

\* EnsureSession, the reuse branch: the Authenticator takes the saved session
Restore(impl, a, saved) ==
    IF impl = "srp"
    THEN restoreCookies([a EXCEPT !.data = saved, !.sessionID = saved.SessionID,
                                  !.scnt = saved.Scnt, !.authToken = saved.SessionToken,
                                  !.trustToken = saved.TrustToken],
                        saved.Cookies)
    ELSE [restoreCookies(a, saved.Cookies) EXCEPT !.data = saved]

\* fullAuth, "Reset state": a new jar and zero SessionData; the other fields
\* of the Authenticator stay
ResetState(a) == [a EXCEPT !.jar = {}, !.data = NoSession]

probeCloudKit(ckBase, ans) ==
    ckBase # "" /\ ans.status >= 200 /\ ans.status < 300

\* variant: a failed probe goes straight to the full authentication
AfterProbe_NoRefresh(impl, ok) ==
    CASE ok -> "done" [] impl = "srp" -> "authStart" [] OTHER -> "signin"

\* EnsureSession after the probe: reuse, else one accountLogin refresh
AfterProbe(impl, ok) == IF ok THEN "done" ELSE "refresh"

\* the first step of fullAuth
FirstStep(impl) == IF impl = "srp" THEN "authStart" ELSE "signin"

\* accountLogin: the token it sends, the Authenticator after the response,
\* the storage URL or the error
accountLogin(impl, a, ans) ==
    LET own == IF impl = "srp" THEN a.authToken ELSE a.data.SessionToken
        token == IF own = "" THEN sessionTokenFromCookies(a) ELSE own
        got == Received(a, ans)
        known == IF IsNil(ans.dsid) THEN got ELSE [got EXCEPT !.data.DSID = Deref(ans.dsid)]
        fail(b, msg) == [a |-> b, url |-> "", err |-> PlainErr(msg), token |-> token]
    IN CASE ans.status = 0 -> fail(a, "accountLogin request")
         [] ans.status # 200 -> fail(got, "accountLogin HTTP")
         [] ~ans.json -> fail(got, "accountLogin JSON parse")
         [] IsNil(ans.url) -> fail(known, "no webservices in accountLogin response")
         [] OTHER ->
              [a |-> IF impl = "srp" THEN known
                     ELSE [known EXCEPT !.data.Cookies = extractCookies(known)],
               url |-> Deref(ans.url), err |-> NoErr, token |-> token]

\* variant: the refresh starts from an empty trust token
Refreshed_NoTrust(a, ckURL, now) ==
    [a EXCEPT !.data.CKBaseURL = ckURL, !.data.Cookies = extractCookies(a),
              !.data.CreatedAt = now, !.data.TrustToken = ""]

\* EnsureSession, lines 134-141: the refreshed session
Refreshed(a, ckURL, now) ==
    [a EXCEPT !.data.CKBaseURL = ckURL, !.data.Cookies = extractCookies(a),
              !.data.CreatedAt = now]

\* fullAuth after accountLogin: the session to save and return
Authenticated(impl, a, ckURL, now) ==
    IF impl = "srp"
    THEN [a EXCEPT !.data.CKBaseURL = ckURL, !.data.SessionToken = a.authToken,
                   !.data.TrustToken = a.trustToken, !.data.SessionID = a.sessionID,
                   !.data.Scnt = a.scnt, !.data.Cookies = extractCookies(a),
                   !.data.CreatedAt = now]
    ELSE [a EXCEPT !.data.CKBaseURL = ckURL, !.data.Cookies = extractCookies(a),
                   !.data.CreatedAt = now]

\* the SRP steps: the Authenticator after the response, and the error
authStart(a, ans) ==
    [a |-> Received(a, ans),
     err |-> IF ans.status = 200 THEN NoErr ELSE PlainErr("authStart failed")]

authFederate(a, ans) ==
    [a |-> Received(a, ans),
     err |-> IF ans.status = 200 THEN NoErr ELSE PlainErr("authFederate failed")]

authInit(a, ans) ==
    [a |-> Received(a, ans),
     err |-> CASE ans.status # 200 -> PlainErr("authInit failed")
               [] ~ans.json -> PlainErr("decode authInit response")
               [] OTHER -> NoErr]

\* variant: a 409 answer is taken as a plain success
authComplete_No2FA(a, ans) ==
    LET got == [Received(a, ans) EXCEPT !.sessionID = ans.sessionID, !.scnt = ans.scnt]
    IN CASE ans.status = 0 ->
              [a |-> a, needs2FA |-> FALSE, err |-> PlainErr("request failed")]
         [] ans.status \in {200, 409} -> [a |-> got, needs2FA |-> FALSE, err |-> NoErr]
         [] OTHER -> [a |-> got, needs2FA |-> FALSE, err |-> PlainErr("authComplete failed")]

authComplete(a, ans) ==
    LET got == [Received(a, ans) EXCEPT !.sessionID = ans.sessionID, !.scnt = ans.scnt]
    IN CASE ans.status = 0 ->
              [a |-> a, needs2FA |-> FALSE, err |-> PlainErr("request failed")]
         [] ans.status = 200 -> [a |-> got, needs2FA |-> FALSE, err |-> NoErr]
         [] ans.status = 409 -> [a |-> got, needs2FA |-> TRUE, err |-> NoErr]
         [] ans.status = 403 ->
              [a |-> got, needs2FA |-> FALSE, err |-> PlainErr("invalid username or password")]
         [] ans.status = 401 ->
              [a |-> got, needs2FA |-> FALSE, err |-> PlainErr("unauthorized - check credentials")]
         [] ans.status = 412 ->
              [a |-> got, needs2FA |-> FALSE,
               err |-> PlainErr("privacy acknowledgment required")]
         [] OTHER -> [a |-> got, needs2FA |-> FALSE, err |-> PlainErr("authComplete failed")]

submitTwoFactor(a, ans) ==
    CASE ans.status = 0 -> [a |-> a, err |-> PlainErr("request failed")]
      [] ans.status \notin {200, 204} ->
           [a |-> Received(a, ans), err |-> PlainErr("2FA submission failed")]
      [] OTHER ->
           [a |-> IF ans.scnt # "" THEN [Received(a, ans) EXCEPT !.scnt = ans.scnt]
                  ELSE Received(a, ans),
            err |-> NoErr]

getTrust(a, ans) ==
    CASE ans.status = 0 -> [a |-> a, err |-> PlainErr("request failed")]
      [] ans.status # 204 -> [a |-> Received(a, ans), err |-> PlainErr("getTrust failed")]
      [] OTHER ->
           [a |-> [Received(a, ans) EXCEPT !.authToken = ans.token, !.trustToken = ans.trust],
            err |-> NoErr]

\* the password sign-in steps of part_001
signin(a, ans) ==
    LET got == [Received(a, ans) EXCEPT
                  !.data.SessionToken = ans.token, !.data.SessionID = ans.sessionID,
                  !.data.Scnt = ans.scnt, !.data.AccountCountry = ans.country,
                  !.data.TrustToken = IF ans.trust # "" THEN ans.trust ELSE @]
    IN CASE ans.status = 0 ->
              [a |-> a, needs2FA |-> FALSE, err |-> PlainErr("request failed")]
         [] ans.status = 200 -> [a |-> got, needs2FA |-> FALSE, err |-> NoErr]
         [] ans.status = 409 -> [a |-> got, needs2FA |-> TRUE, err |-> NoErr]
         [] ans.status = 403 ->
              [a |-> got, needs2FA |-> FALSE, err |-> PlainErr("invalid Apple ID or password")]
         [] ans.status = 401 ->
              [a |-> got, needs2FA |-> FALSE,
               err |-> PlainErr("unauthorized (check credentials)")]
         [] OTHER ->
              [a |-> got, needs2FA |-> FALSE,
               err |-> httpError(ans.status, "signin failed HTTP")]

verify2FA(a, ans) ==
    CASE ans.status = 0 -> [a |-> a, err |-> PlainErr("request failed")]
      [] ans.status \notin {200, 204} ->
           [a |-> Received(a, ans), err |-> PlainErr("2FA failed HTTP")]
      [] OTHER ->
           [a |-> IF ans.token # ""
                  THEN [Received(a, ans) EXCEPT !.data.SessionToken = ans.token]
                  ELSE Received(a, ans),
            err |-> NoErr]

trustSession(a, ans) ==
    IF ans.status = 0 THEN [a |-> a, err |-> PlainErr("request failed")]
    ELSE [a |-> [Received(a, ans) EXCEPT
                   !.data.TrustToken = IF ans.trust # "" THEN ans.trust ELSE @,
                   !.data.SessionToken = IF ans.token # "" THEN ans.token ELSE @],
          err |-> NoErr]

\* One round of the loop of doWithRetry after fn returned err: whether the
\* loop returns, whether it slept before that, and the next round.
doWithRetry(maxRetries, i, err) ==
    IF RetryDecision(maxRetries, i, err) = "return"
    THEN [returns |-> TRUE, slept |-> FALSE, i |-> i]
    ELSE [returns |-> i + 1 > maxRetries, slept |-> TRUE, i |-> i + 1]

\* ---- the provider's answers, step by step

Sid == "sid1"

Nonce == "sc1"

ProbeAnswers == {Answer(200), Answer(401), Answer(0)}

LoginAnswers ==
    {Answer(0), Answer(401),
     [Answer(200) EXCEPT !.json = FALSE],
     [Answer(200) EXCEPT !.dsid = Ptr("d1")],
     [Answer(200) EXCEPT !.dsid = Ptr("d1"), !.url = Ptr("")],
     [Answer(200) EXCEPT !.dsid = Ptr("d1"), !.url = Ptr("https://ck"),
                         !.cookies = {[name |-> "X-APPLE-WEBAUTH-TOKEN", value |-> "w1"]}],
     [Answer(200) EXCEPT !.dsid = Ptr("d1"), !.url = Ptr("https://ck2"),
                         !.cookies = {[name |-> "X-APPLE-WEBAUTH-TOKEN", value |-> "w2"]}]}

StartAnswers == {Answer(200), Answer(503), Answer(0)}

FederateAnswers == {Answer(200), Answer(503)}

InitAnswers == {Answer(200), Answer(503), [Answer(200) EXCEPT !.json = FALSE]}

CompleteAnswers ==
    {[Answer(200) EXCEPT !.sessionID = Sid, !.scnt = Nonce],
     [Answer(409) EXCEPT !.sessionID = Sid, !.scnt = Nonce],
     Answer(409), Answer(403), Answer(401), Answer(412), Answer(500), Answer(0)}

TwoFactorAnswers ==
    {[Answer(204) EXCEPT !.scnt = "sc2", !.token = "tok2"], Answer(200), Answer(400), Answer(0)}

TrustAnswers ==
    {[Answer(204) EXCEPT !.token = "tok1", !.trust = "tr1"], Answer(500), Answer(0)}

SigninAnswers ==
    {[Answer(200) EXCEPT !.sessionID = Sid, !.scnt = Nonce, !.token = "tok1",
                         !.country = "US"],
     [Answer(409) EXCEPT !.sessionID = Sid, !.scnt = Nonce],
     Answer(403), Answer(401), Answer(412), Answer(503), Answer(0)}

SessionSaveOutcomes == {"ok", "mkdir", "write"}

\* ---- the steps of an EnsureSession call

Failed(err) == [call EXCEPT !.pc = "done", !.err = err, !.out = NoSession]

Returned(data) == [call EXCEPT !.pc = "done", !.err = NoErr, !.out = data]

\* EnsureSession up to its first request: a new process, a new Authenticator
Begin ==
    /\ call.pc \in {"idle", "done"}
    /\ call.impl \in {"", "srp", "legacy"}
    /\ call.n < MaxCalls
    /\ \E impl \in {"srp", "legacy"}, force \in BOOLEAN :
         LET ld == loadSessionFile(sessionFile)
             reuse == ~force /\ ~ld.err /\ ld.data.CKBaseURL # ""
         IN /\ authn' = IF reuse THEN Restore(impl, New, ld.data) ELSE ResetState(New)
            /\ call' = [NoCall EXCEPT !.pc = IF reuse THEN "probe" ELSE FirstStep(impl),
                                      !.impl = impl, !.n = call.n + 1, !.force = force,
                                      !.file0 = sessionFile,
                                      !.maxRetries = SigninRetries]
    /\ wire' = <<>>
    /\ UNCHANGED <<sessionFile, writerVars>>

Probe ==
    /\ call.pc = "probe"
    /\ \E ans \in ProbeAnswers :
         LET ok == probeCloudKit(call.file0.data.CKBaseURL, ans)
         IN /\ wire' = Append(wire, Request("zones/list", ans.status, "", "", "", ""))
            /\ authn' = Received(authn, ans)
            /\ call' = IF ok THEN [Returned(authn.data) EXCEPT !.probed = "ok"]
                       ELSE [call EXCEPT !.pc = AfterProbe(call.impl, ok),
                                         !.probed = "failed"]
    /\ UNCHANGED <<sessionFile, writerVars>>

Refresh ==
    /\ call.pc = "refresh"
    /\ \E ans \in LoginAnswers, sv \in SessionSaveOutcomes :
         LET r == accountLogin(call.impl, authn, ans)
             req == Request("accountLogin", ans.status, "", "", r.token, "")
             fresh == Refreshed(r.a, r.url, call.n)
         IN IF r.err = NoErr
            THEN /\ authn' = fresh
                 /\ sessionFile' = saveSession(fresh, sessionFile, sv).file
                 /\ wire' = wire \o <<req, Saved(sv)>>
                 /\ call' = Returned(fresh.data)
            ELSE /\ authn' = ResetState(r.a)
                 /\ sessionFile' = sessionFile
                 /\ wire' = Append(wire, req)
                 /\ call' = [call EXCEPT !.pc = FirstStep(call.impl)]
    /\ UNCHANGED writerVars

\* a handshake step that either fails the call or moves on to `next`
Stepped(r, req, next) ==
    /\ authn' = r.a
    /\ wire' = Append(wire, req)
    /\ call' = IF r.err = NoErr THEN [call EXCEPT !.pc = next] ELSE Failed(r.err)
    /\ UNCHANGED <<sessionFile, writerVars>>

AuthStart ==
    /\ call.pc = "authStart"
    /\ \E ans \in StartAnswers :
         Stepped(authStart(authn, ans), Request("authStart", ans.status, "", "", "", ""),
                 "authFederate")

AuthFederate ==
    /\ call.pc = "authFederate"
    /\ \E ans \in FederateAnswers :
         Stepped(authFederate(authn, ans),
                 Request("federate", ans.status, authn.sessionID, authn.scnt, "", ""),
                 "authInit")

AuthInit ==
    /\ call.pc = "authInit"
    /\ \E ans \in InitAnswers :
         Stepped(authInit(authn, ans),
                 Request("signin/init", ans.status, authn.sessionID, authn.scnt, "", ""),
                 "authComplete")

AuthComplete ==
    /\ call.pc = "authComplete"
    /\ \E ans \in CompleteAnswers :
         LET r == authComplete(authn, ans)
         IN /\ authn' = r.a
            /\ wire' = Append(wire, Request("signin/complete", ans.status, authn.sessionID,
                                            authn.scnt, "", authn.trustToken))
            /\ call' = CASE r.err # NoErr -> Failed(r.err)
                         [] r.needs2FA ->
                              [call EXCEPT !.pc = "submitTwoFactor", !.needs2FA = TRUE]
                         [] OTHER -> [call EXCEPT !.pc = "getTrust"]
    /\ UNCHANGED <<sessionFile, writerVars>>

SubmitTwoFactor ==
    /\ call.pc = "submitTwoFactor"
    /\ \E ans \in TwoFactorAnswers :
         Stepped(submitTwoFactor(authn, ans),
                 Request("verify/securitycode", ans.status, authn.sessionID, authn.scnt,
                         "", ""),
                 "getTrust")

\* variant: a failed getTrust ends the call
GetTrust_Fatal ==
    /\ call.pc = "getTrust"
    /\ \E ans \in TrustAnswers :
         Stepped(getTrust(authn, ans),
                 Request("2sv/trust", ans.status, authn.sessionID, authn.scnt, "", ""),
                 "accountLogin")

\* a failed getTrust is only logged
GetTrust ==
    /\ call.pc = "getTrust"
    /\ \E ans \in TrustAnswers :
         /\ authn' = getTrust(authn, ans).a
         /\ wire' = Append(wire, Request("2sv/trust", ans.status, authn.sessionID,
                                         authn.scnt, "", ""))
         /\ call' = [call EXCEPT !.pc = "accountLogin"]
    /\ UNCHANGED <<sessionFile, writerVars>>

\* variant: the session is saved before the accountLogin exchange
AccountLogin_SavesFirst ==
    /\ call.pc = "accountLogin"
    /\ \E ans \in LoginAnswers, sv \in SessionSaveOutcomes :
         LET r == accountLogin(call.impl, authn, ans)
             req == Request("accountLogin", ans.status, "", "", r.token, "")
             done == Authenticated(call.impl, r.a, r.url, call.n)
         IN /\ sessionFile' = saveSession(done, sessionFile, sv).file
            /\ wire' = wire \o <<Saved(sv), req>>
            /\ IF r.err = NoErr
               THEN authn' = done /\ call' = Returned(done.data)
               ELSE authn' = r.a /\ call' = Failed(r.err)
    /\ UNCHANGED writerVars

\* the last step of fullAuth, in both generations: accountLogin, then save
AccountLogin ==
    /\ call.pc = "accountLogin"
    /\ \E ans \in LoginAnswers, sv \in SessionSaveOutcomes :
         LET r == accountLogin(call.impl, authn, ans)
             req == Request("accountLogin", ans.status, "", "", r.token, "")
             done == Authenticated(call.impl, r.a, r.url, call.n)
         IN IF r.err = NoErr
            THEN /\ authn' = done
                 /\ sessionFile' = saveSession(done, sessionFile, sv).file
                 /\ wire' = wire \o <<req, Saved(sv)>>
                 /\ call' = Returned(done.data)
            ELSE /\ authn' = r.a
                 /\ sessionFile' = sessionFile
                 /\ wire' = Append(wire, req)
                 /\ call' = Failed(r.err)
    /\ UNCHANGED writerVars

\* fullAuth of part_001, step 1: doWithRetry(3, signin), one round
Signin ==
    /\ call.pc = "signin"
    /\ \E ans \in SigninAnswers :
         LET r == signin(authn, ans)
             req == Request("signin", ans.status, "", "", "", authn.data.TrustToken)
             round == doWithRetry(call.maxRetries, call.i, r.err)
         IN /\ authn' = r.a
            /\ wire' = IF round.slept THEN wire \o <<req, Slept(Delay(call.i))>>
                       ELSE Append(wire, req)
            /\ call' = CASE ~round.returns -> [call EXCEPT !.i = round.i]
                         [] r.err # NoErr -> Failed(r.err)
                         [] r.needs2FA -> [call EXCEPT !.pc = "verify2FA", !.needs2FA = TRUE]
                         [] OTHER -> [call EXCEPT !.pc = "accountLogin"]
    /\ UNCHANGED <<sessionFile, writerVars>>

Verify2FA ==
    /\ call.pc = "verify2FA"
    /\ \E ans \in TwoFactorAnswers :
         Stepped(verify2FA(authn, ans),
                 Request("verify/securitycode", ans.status, authn.data.SessionID,
                         authn.data.Scnt, "", ""),
                 "trustSession")

\* a failed trustSession is only logged
TrustSession ==
    /\ call.pc = "trustSession"
    /\ \E ans \in TrustAnswers :
         /\ authn' = trustSession(authn, ans).a
         /\ wire' = Append(wire, Request("2sv/trust", ans.status, authn.data.SessionID,
                                         authn.data.Scnt, "", ""))
         /\ call' = [call EXCEPT !.pc = "accountLogin"]
    /\ UNCHANGED <<sessionFile, writerVars>>

NextAuth ==
    \/ Begin \/ Probe \/ Refresh
    \/ AuthStart \/ AuthFederate \/ AuthInit \/ AuthComplete \/ SubmitTwoFactor \/ GetTrust
    \/ Signin \/ Verify2FA \/ TrustSession
    \/ AccountLogin

SpecAuth == Init /\ [][NextAuth]_vars

\* ---- doWithRetry on its own: a budget and a function that fails as it likes

\* the largest budget tried
MaxRetries == 5

FnErrors ==
    {NoErr, PlainErr("failed"), httpError(429, "busy"), httpError(503, "down"),
     httpError(404, "gone")}

InitRetry ==
    /\ cache = NewCache
    /\ file = NoFile
    /\ net = <<>>
    /\ last = [op |-> "new", in |-> NoInput, result |-> NoResult, fullID |-> NoId,
               created |-> <<>>, saved |-> "none", now |-> 0, answer |-> "empty"]
    /\ nops = 0
    /\ unsynced = {}
    /\ sessionFile = NoSessionFile
    /\ authn = New
    /\ wire = <<>>
    /\ \E m \in 0..MaxRetries : call = [NoCall EXCEPT !.pc = "retry", !.impl = "fn",
                                                      !.maxRetries = m]

\* one round of doWithRetry: the call of fn, and the sleep when it goes on
RetryCall ==
    /\ call.pc = "retry"
    /\ \E err \in FnErrors :
         LET round == doWithRetry(call.maxRetries, call.i, err)
             req == Request("fn", err.status, "", "", "", "")
         IN /\ wire' = IF round.slept THEN wire \o <<req, Slept(Delay(call.i))>>
                       ELSE Append(wire, req)
            /\ call' = IF round.returns
                       THEN [call EXCEPT !.pc = "done", !.err = err, !.i = round.i]
                       ELSE [call EXCEPT !.i = round.i, !.err = err]
    /\ UNCHANGED <<sessionFile, authn, writerVars>>

NextRetry == RetryCall

SpecRetry == InitRetry /\ [][NextRetry]_vars

\* ---- properties of EnsureSession and doWithRetry

\* the requests of the handshake proper (the accountLogin exchange excluded)
HandshakeRequests ==
    {"authStart", "federate", "signin/init", "signin/complete", "signin",
     "verify/securitycode", "2sv/trust"}

IsRequest(i, names) == wire[i].kind = "request" /\ wire[i].to \in names

\* the accountLogin requests sent before any request of the handshake
RefreshAttempts ==
    {i \in 1..Len(wire) :
        /\ IsRequest(i, {"accountLogin"})
        /\ \A j \in 1..i : ~IsRequest(j, HandshakeRequests)}

\* C7: EnsureSession makes at most one refresh attempt, makes none unless the
\* probe of the loaded session failed, and once the probe has failed the
\* refresh is the request right after the probe: full authentication starts
\* only after exactly one refresh attempt.
C7_OneRefresh ==
    /\ call.impl \in {"srp", "legacy"} => Cardinality(RefreshAttempts) <= 1
    /\ (call.impl \in {"srp", "legacy"} /\ call.probed # "failed") => RefreshAttempts = {}
    /\ (call.impl \in {"srp", "legacy"} /\ call.probed = "failed" /\ call.pc # "refresh")
       => /\ ~call.force
          /\ call.file0.data.CKBaseURL # ""
          /\ IsRequest(1, {"zones/list"})
          /\ RefreshAttempts = {2}

\* C7 witness: the probe failed, the refresh failed too and the handshake has
\* sent its first request
C7_Witness ==
    /\ call.probed = "failed"
    /\ Len(wire) >= 3
    /\ IsRequest(2, {"accountLogin"})
    /\ IsRequest(3, HandshakeRequests)

\* C8: when the probe of the loaded session succeeds the call is over with
\* the probe as its only request, returns the session as it was loaded from
\* the file and leaves the file as it was.
C8_ReuseAsIs ==
    call.probed = "ok"
    => /\ call.pc = "done"
       /\ ~call.force
       /\ call.err = NoErr
       /\ Len(wire) = 1
       /\ IsRequest(1, {"zones/list"})
       /\ call.out = call.file0.data
       /\ call.out.CKBaseURL # ""
       /\ sessionFile = call.file0

\* C8 witness: a session saved by an earlier call was reused after a probe
C8_Witness ==
    /\ call.probed = "ok"
    /\ call.n = 2
    /\ call.out.CKBaseURL = "https://ck"
    /\ sessionFile.state = "written"

\* a sign-in or SRP-proof request answered 403, 401 or 412, or a verification
\* request answered with a status other than 200 and 204
CredentialError(i) ==
    \/ IsRequest(i, {"signin", "signin/complete"}) /\ wire[i].status \in {403, 401, 412}
    \/ IsRequest(i, {"verify/securitycode"}) /\ wire[i].status \notin {0, 200, 204}

\* C9 (as stated): a request answered with a credential error is the last
\* thing the call does: it ends with an error, nothing follows the request
\* (no sleep, no request, no save) and the session file is as it was.
C9_CredentialErrorsFatal ==
    \A i \in 1..Len(wire) :
        (call.impl \in {"srp", "legacy"} /\ CredentialError(i))
        => /\ i = Len(wire)
           /\ call.pc = "done"
           /\ call.err # NoErr
           /\ sessionFile = call.file0

\* the calls of fn among the events
FnCalls == {i \in 1..Len(wire) : wire[i].kind = "request"}

\* C10 (as stated): doWithRetry calls fn at most maxRetries+1 times, and every
\* sleep is followed by another call of fn: it does not return after a sleep.
C10_RetryBudget ==
    call.impl = "fn"
    => /\ Cardinality(FnCalls) <= call.maxRetries + 1
       /\ \A i \in 1..Len(wire) :
             wire[i].kind = "sleep"
             => /\ i < Len(wire) => wire[i + 1].kind = "request"
                /\ i = Len(wire) => call.pc # "done"

\* the calls of fn that failed with an HTTP status outside the retryable set
NonRetryable(i) ==
    /\ wire[i].kind = "request"
    /\ wire[i].status # 0
    /\ wire[i].status \notin {429, 500, 502, 503, 504}

\* C11: a call of fn that fails with an HTTP status outside {429, 500, 502,
\* 503, 504} is the last thing doWithRetry does: it has returned, with that
\* error, and neither a sleep nor another call of fn follows, whatever is
\* left of the budget.
C11_NonRetryableAborts ==
    \A i \in 1..Len(wire) :
        (call.impl = "fn" /\ NonRetryable(i))
        => /\ i = Len(wire)
           /\ call.pc = "done"
           /\ call.err.kind = "http"
           /\ call.err.status = wire[i].status

\* C11 witness: after two transient failures, with budget left, fn failed with
\* 404 and doWithRetry returned
C11_Witness ==
    /\ call.impl = "fn"
    /\ call.pc = "done"
    /\ call.maxRetries = 4
    /\ Len(wire) = 5
    /\ wire[1].status = 503
    /\ wire[3].status = 0
    /\ wire[5].status = 404

\* C12 (as stated): an SRP-complete request answered 409 makes the handshake
\* go on to the verification request, and when the Authenticator held a
\* session id and a nonce as it sent the SRP-complete request, the
\* verification request carries a non-empty session id and nonce.
C12_KeepsSessionHeaders ==
    \A i \in 1..Len(wire) :
        (call.impl = "srp" /\ IsRequest(i, {"signin/complete"}) /\ wire[i].status = 409)
        => /\ call.needs2FA
           /\ (i = Len(wire) => call.pc = "submitTwoFactor")
           /\ (i < Len(wire) /\ wire[i].sessionID # "" /\ wire[i].scnt # "")
              => /\ IsRequest(i + 1, {"verify/securitycode"})
                 /\ wire[i + 1].sessionID # ""
                 /\ wire[i + 1].scnt # ""

\* a trust fetch that failed: getTrust wants 204, trustSession fails only
\* when the request itself does
TrustFailed(i) ==
    /\ IsRequest(i, {"2sv/trust"})
    /\ IF call.impl = "srp" THEN wire[i].status # 204 ELSE wire[i].status = 0

\* the errors of accountLogin
AccountLoginErrors ==
    {"accountLogin request", "accountLogin HTTP", "accountLogin JSON parse",
     "no webservices in accountLogin response"}

\* C13: after a failed trust fetch the call goes on to the accountLogin
\* exchange; it fails only with an error of that exchange, and when the
\* exchange succeeds it returns the session with the storage URL, having
\* called saveSession: the file holds the returned session when the write
\* succeeded.
C13_TrustFailureNotFatal ==
    \A i \in 1..Len(wire) :
        (call.impl \in {"srp", "legacy"} /\ TrustFailed(i))
        => /\ i = Len(wire) => call.pc = "accountLogin"
           /\ i < Len(wire)
              => /\ IsRequest(i + 1, {"accountLogin"})
                 /\ call.pc = "done"
                 /\ call.err # NoErr
                    => /\ call.err.msg \in AccountLoginErrors
                       /\ Len(wire) = i + 1
                 /\ call.err = NoErr
                    => /\ Len(wire) = i + 2
                       /\ wire[i + 2].kind = "save"
                       /\ call.out = authn.data
                       /\ wire[i + 2].to = "ok"
                          => sessionFile = [state |-> "written", data |-> call.out]

\* C13 witness: the SRP handshake whose trust fetch was answered 500 returned
\* a session and saved it
C13_Witness ==
    /\ call.impl = "srp"
    /\ call.pc = "done"
    /\ call.err = NoErr
    /\ Len(wire) >= 3
    /\ TrustFailed(Len(wire) - 2)
    /\ wire[Len(wire) - 2].status = 500
    /\ wire[Len(wire)].kind = "save"
    /\ wire[Len(wire)].to = "ok"
    /\ call.out.CKBaseURL = "https://ck"
    /\ sessionFile.data = call.out

\* what an event of the call is: the endpoint of a request, "save", "sleep"
StepName(e) == IF e.kind = "request" THEN e.to ELSE e.kind

\* the steps of fullAuth in the order of its code, with and without 2FA
FullOrder(with2FA) ==
    IF with2FA
    THEN <<"authStart", "federate", "signin/init", "signin/complete",
           "verify/securitycode", "2sv/trust", "accountLogin", "save">>
    ELSE <<"authStart", "federate", "signin/init", "signin/complete",
           "2sv/trust", "accountLogin", "save">>

IsPrefix(s, t) == Len(s) <= Len(t) /\ \A k \in 1..Len(s) : s[k] = t[k]

\* where the SRP handshake of the call starts among its events (0: nowhere)
HandshakeStart ==
    IF \E i \in 1..Len(wire) : IsRequest(i, {"authStart"})
    THEN CHOOSE i \in 1..Len(wire) :
             IsRequest(i, {"authStart"}) /\ \A j \in 1..(i - 1) : ~IsRequest(j, {"authStart"})
    ELSE 0

\* the events of the call from the start of the handshake on
HandshakeRun ==
    [k \in 1..(Len(wire) - HandshakeStart + 1) |-> wire[HandshakeStart + k - 1]]

\* C14: the events of a run of the SRP handshake are a prefix of authStart,
\* federate, SRP init, SRP complete, verification, trust fetch, accountLogin,
\* saveSession, with the verification present exactly when SRP complete was
\* answered 409; no request of the handshake precedes authStart; the call
\* returns a session only at the end of that sequence; the session is saved
\* only right after an accountLogin answered 200, and until then the session
\* file is as the call found it.
C14_HandshakeOrder ==
    (call.impl = "srp" /\ HandshakeStart > 0)
    => LET run == HandshakeRun
           names == [k \in 1..Len(run) |-> StepName(run[k])]
           with2FA == Len(run) >= 4 /\ run[4].status = 409
           order == FullOrder(with2FA)
       IN /\ IsPrefix(names, order)
          /\ \A j \in 1..(HandshakeStart - 1) : ~IsRequest(j, HandshakeRequests)
          /\ (call.pc = "done" /\ call.err = NoErr) => Len(run) = Len(order)
          /\ Len(run) = Len(order)
             => /\ run[Len(run) - 1].status = 200
                /\ call.pc = "done"
                /\ call.err = NoErr
          /\ Len(run) < Len(order) => sessionFile = call.file0

\* C14 witness: a complete run with the verification step whose session was
\* written to the file
C14_Witness ==
    /\ call.impl = "srp"
    /\ HandshakeStart > 0
    /\ Len(HandshakeRun) = 8
    /\ HandshakeRun[4].status = 409
    /\ StepName(HandshakeRun[5]) = "verify/securitycode"
    /\ HandshakeRun[8].to = "ok"
    /\ sessionFile # call.file0

\* NewFromSession of the protocol client: refuses a session without storage
\* URL, else keeps the URL with a trailing slash
NewFromSession(sess) ==
    IF sess.CKBaseURL = ""
    THEN [ok |-> FALSE, err |-> PlainErr("session has no ck_base_url")]
    ELSE [ok |-> TRUE, err |-> NoErr]

\* C15 (as stated): every session an EnsureSession call returns without an
\* error has a non-empty storage URL, so that the protocol client, which
\* refuses exactly the sessions with an empty storage URL, can be built
\* from it.
C15_ReturnedSessionUsable ==
    (call.impl \in {"srp", "legacy"} /\ call.pc = "done" /\ call.err = NoErr)
    => /\ call.out.CKBaseURL # ""
       /\ NewFromSession(call.out).ok

\* C16: a refresh that succeeds after a failed probe returns the loaded
\* session with the storage URL of the accountLogin answer, the cookies of the
\* jar after that answer and the time of the call, calls saveSession with it
\* (the file holds it when the write succeeds), and its session token and
\* trust token are those of the session file.
C16_RefreshKeepsTokens ==
    [][(call.pc = "refresh" /\ call'.pc = "done")
       => /\ call.probed = "failed"
          /\ call'.err = NoErr
          /\ \E ans \in LoginAnswers, sv \in SessionSaveOutcomes :
               /\ ans.status = 200
               /\ ~IsNil(ans.url)
               /\ call'.out.CKBaseURL = Deref(ans.url)
               /\ call'.out.Cookies = SetCookies(authn.jar, ans.cookies)
               /\ Len(wire') = Len(wire) + 2
               /\ wire'[Len(wire) + 1].status = ans.status
               /\ IsRequest(Len(wire), {"zones/list"})
               /\ wire'[Len(wire) + 2] = Saved(sv)
               /\ sv = "ok" => sessionFile' = [state |-> "written", data |-> call'.out]
               /\ sv = "mkdir" => sessionFile' = sessionFile
          /\ call'.out.CreatedAt = call.n
          /\ call'.out.SessionToken = call.file0.data.SessionToken
          /\ call'.out.TrustToken = call.file0.data.TrustToken]_vars

\* C16 witness: the second call found a session with both tokens, its probe
\* failed and the refresh gave it a new storage URL, new cookies and a new
\* time, and wrote it to the file
C16_Witness ==
    /\ call.probed = "failed"
    /\ call.pc = "done"
    /\ call.err = NoErr
    /\ Len(wire) = 3
    /\ wire[3] = Saved("ok")
    /\ call.file0.data.SessionToken = "tok1"
    /\ call.file0.data.TrustToken = "tr1"
    /\ call.file0.data.CKBaseURL = "https://ck"
    /\ call.out.CKBaseURL = "https://ck2"
    /\ call.out.Cookies # call.file0.data.Cookies
    /\ call.out.CreatedAt # call.file0.data.CreatedAt
    /\ call.out.SessionToken = "tok1"
    /\ call.out.TrustToken = "tr1"
    /\ sessionFile.data = call.out

\* C17 (as stated): when the session file the call found holds a trust
\* token, every request that submits the credentials (the SRP proof, or the
\* password sign-in of the earlier generation) carries that trust token.
C17_StoredTrustTokenSubmitted ==
    \A i \in 1..Len(wire) :
        (/\ call.impl \in {"srp", "legacy"}
         /\ IsRequest(i, {"signin/complete", "signin"})
         /\ call.file0.state = "written"
         /\ call.file0.data.TrustToken # "")
        => wire[i].trust = call.file0.data.TrustToken

\* ------------------------------------------------------------------ folding
\* processRecords on its own: changes pages folded one after the other into a
\* cache that starts empty.  `last` describes the fold of the step: the page,
\* the cache it was folded into, and whether it is the page of the fold before.

\* the folds a run makes
MaxFolds == 3

\* the records a page holds at most
MaxPageLen == 2

\* records of every kind processRecords tells apart: a list (named, without
\* a name, deleted by the server's flag), a reminder (two versions of the same
\* record, deleted by its Deleted field), a record of another type
FoldRecords ==
    LET list == ListRecord(L1, ShopName, 1)
        milk == ReminderRecord(NewCache, R1, FALSE, 1)
    IN {list,
        [list EXCEPT !.fields.Name = NilPtr],
        [list EXCEPT !.deleted = TRUE],
        milk,
        [milk EXCEPT !.fields.TitleDocument = Ptr(EncodeTitle(Eggs)),
                     !.fields.Completed = Ptr(1),
                     !.fields.CompletionDate = Ptr(MsPerDay),
                     !.fields.Priority = Ptr(1),
                     !.fields.List = NilPtr,
                     !.recordChangeTag = Ptr("")],
        [milk EXCEPT !.fields.Deleted = Ptr(1)],
        [milk EXCEPT !.recordType = "Alarm"]}

FoldPages == UNION {[1..n -> FoldRecords] : n \in 0..MaxPageLen}

\* one call of processRecords
Fold ==
    /\ nops < MaxFolds
    /\ \E records \in FoldPages :
         /\ cache' = processRecords(cache, records)
         /\ last' = [op |-> "fold", records |-> records, before |-> cache,
                     again |-> last.op = "fold" /\ last.records = records]
    /\ nops' = nops + 1
    /\ UNCHANGED <<file, net, unsynced, authVars>>

NextFold == Fold

SpecFold == Init /\ [][NextFold]_vars

\* C18: when processRecords folds the page it has just folded, the reminders
\* and the lists of the cache stay what the first fold made them.
C18_FoldIdempotent ==
    (last.op = "fold" /\ last.again)
    => /\ cache.Reminders = last.before.Reminders
       /\ cache.Lists = last.before.Lists

\* C18 witness: a page with a list and a new version of a cached reminder
\* was folded a second time
C18_Witness ==
    /\ last.op = "fold"
    /\ last.again
    /\ nops = 3
    /\ Len(last.records) = 2
    /\ last.records[1].recordType = "List"
    /\ ~last.records[1].deleted
    /\ last.records[2].recordName = R1
    /\ R1 \in DOMAIN last.before.Reminders
    /\ R1 \in DOMAIN cache.Reminders
    /\ cache.Reminders[R1].Title = Eggs
    /\ DOMAIN cache.Lists = {L1}

\* ------------------------------------------------------------------ delta sync
\* Sync calls of successive processes: each loads the cache file, receives a
\* part of the provider's pages and saves.  `last` keeps all the pages received
\* so far and whether every Save so far has succeeded.

\* the Sync calls a run makes
MaxSyncs == 2

\* what a changes page carries: its records and its cursor ("": none)
PageBodies ==
    LET list == ListRecord(L1, ShopName, 1)
        milk == ReminderRecord(NewCache, R1, FALSE, 1)
    IN {[records |-> <<list, milk>>, token |-> "k1"],
        [records |-> <<[milk EXCEPT !.fields.TitleDocument = Ptr(EncodeTitle(Eggs)),
                                    !.fields.Completed = Ptr(1)]>>, token |-> "k2"],
        [records |-> <<[milk EXCEPT !.deleted = TRUE]>>, token |-> ""],
        [records |-> <<[list EXCEPT !.deleted = TRUE],
                       ReminderRecord(NewCache, <<"A", "2">>, FALSE, 1)>>, token |-> "k3"],
        [records |-> <<[list EXCEPT !.fields.Name = NilPtr]>>, token |-> "k4"],
        [records |-> <<[milk EXCEPT !.fields.Deleted = Ptr(1)], milk>>, token |-> "k5"]}

\* the parts a Sync call may receive: one page or two
DeltaParts == {<<p>> : p \in PageBodies} \cup {<<p, q>> : p, q \in PageBodies}

\* the provider's answers that deliver `bodies` to one Sync call: every page
\* but the last says that more is coming
Delivered(bodies) ==
    [i \in 1..Len(bodies) |-> Page(bodies[i].records, i < Len(bodies), bodies[i].token)]

OwnerKnown == HttpOK([NoResult EXCEPT !.zones =
                        Ptr(<<[zoneName |-> Zone, ownerRecordName |-> Ptr("_o1")]>>)])

\* the cache after one Sync of an empty cache that receives all of `bodies`
FullSync(bodies) ==
    LET env == [zl |-> OwnerKnown, mr |-> "empty", sv |-> "ok", now |-> Clock(0),
                uuid |-> <<>>, answers |-> Delivered(bodies)]
    IN (CHOOSE out \in Sync(NewCache, NoFile, FALSE, env) : TRUE).cache

\* one process: sync.New loads the cache, Sync receives a part.  A forced
\* Sync starts the history of received pages anew.
DeltaSync ==
    /\ nops < MaxSyncs
    /\ \E part \in DeltaParts, sv \in SaveOutcomes, force \in BOOLEAN :
         LET env == [zl |-> OwnerKnown, mr |-> "empty", sv |-> sv, now |-> Clock(nops),
                     uuid |-> <<>>, answers |-> Delivered(part)]
             fresh == force \/ last.op # "delta"
         IN \E out \in Sync(Load(file), file, force, env) :
              /\ cache' = out.cache
              /\ file' = out.file
              /\ net' = out.net
              /\ last' = [op |-> "delta", force |-> force, part |-> part,
                          before |-> Load(file),
                          ok |-> IsNil(out.result.error),
                          pages |-> (IF fresh THEN <<>> ELSE last.pages) \o part,
                          parts |-> (IF fresh THEN 0 ELSE last.parts) + 1,
                          persisted |-> (fresh \/ last.persisted) /\ out.saved = "ok"]
    /\ nops' = nops + 1
    /\ UNCHANGED <<unsynced, authVars>>

NextDelta == DeltaSync

SpecDelta == Init /\ [][NextDelta]_vars

\* C19: after Sync calls that received the pages part by part, each saving
\* the cache for the next, the reminders, the lists and the cursor are those
\* of one Sync of an empty cache that receives all the pages, in memory and
\* in the cache file.
C19_DeltaEqualsFull ==
    (last.op = "delta" /\ last.persisted)
    => LET full == FullSync(last.pages)
       IN /\ cache.Reminders = full.Reminders
          /\ cache.Lists = full.Lists
          /\ cache.SyncToken = full.SyncToken
          /\ file.state = "written"
          /\ file.content.Reminders = full.Reminders
          /\ file.content.Lists = full.Lists
          /\ file.content.SyncToken = full.SyncToken

\* C19 witness: two Sync calls received four pages, two each; the second call
\* started from the cursor the first had saved and ended on a page without
\* cursor
C19_Witness ==
    /\ last.op = "delta"
    /\ last.persisted
    /\ last.parts = 2
    /\ Len(last.pages) = 4
    /\ last.pages[1].token = "k1"
    /\ last.pages[2].token = "k3"
    /\ last.pages[4].token = ""
    /\ cache.SyncToken = Ptr(last.pages[3].token)
    /\ cache.Lists = <<>>
    /\ DOMAIN cache.Reminders = {<<"A", "2">>}

\* the changes fetches among the requests of a step
ChangesFetches(calls) == {i \in 1..Len(calls) : calls[i].path = "changes/zone"}

\* the first of them
FirstFetch(calls) ==
    calls[CHOOSE i \in ChangesFetches(calls) : \A j \in ChangesFetches(calls) : i <= j]

\* C20: the first changes fetch of a Sync carries no cursor when the Sync is
\* forced; otherwise it carries the cursor the cache held when the Sync
\* began, and none when the cache held none.
C20_FirstFetchCursor ==
    [][(last'.op = "sync" /\ ChangesFetches(net') # {})
       => FirstFetch(net').syncToken =
            (CASE last'.in.force -> ""
               [] IsNil(cache.SyncToken) -> ""
               [] OTHER -> Deref(cache.SyncToken))]_vars

\* C20 witness: a Sync that was not forced sent its first changes fetch with
\* the cursor of an earlier Sync
C20_Witness ==
    /\ last.op = "sync"
    /\ ~last.in.force
    /\ ChangesFetches(net) # {}
    /\ FirstFetch(net).syncToken = "k1"

\* the records of the pages of a part, in the order of arrival
RECURSIVE RecordsOfPart(_)
RecordsOfPart(part) ==
    IF part = <<>> THEN <<>> ELSE Head(part).records \o RecordsOfPart(Tail(part))

\* a record that says its object is gone: the server's flag or the Deleted field
SaysDeleted(r) == r.deleted \/ getFieldInt(r.fields, "Deleted") # 0

\* the reminders `recs` deliver as live: the last reminder record of the name
\* does not say deleted
LiveReminders(recs) ==
    {recs[i].recordName : i \in {i \in 1..Len(recs) :
        /\ recs[i].recordType = "Reminder"
        /\ ~SaysDeleted(recs[i])
        /\ \A j \in (i + 1)..Len(recs) :
              (recs[j].recordType = "Reminder" /\ recs[j].recordName = recs[i].recordName)
              => ~SaysDeleted(recs[j])}}

\* the lists `recs` deliver as live, with a name: a list record that carries
\* no name leaves the cache as it is
LiveLists(recs) ==
    {recs[i].recordName : i \in {i \in 1..Len(recs) :
        /\ recs[i].recordType \in {"ReminderList", "List"}
        /\ ~SaysDeleted(recs[i])
        /\ getFieldString(recs[i].fields, "Name") # <<>>
        /\ \A j \in (i + 1)..Len(recs) :
              (recs[j].recordType \in {"ReminderList", "List"}
               /\ recs[j].recordName = recs[i].recordName)
              => ~SaysDeleted(recs[j])}}

RemoteSucceeded ==
    \/ last.op = "sync"
    \/ last.op \in {"create", "batch", "complete", "delete"}
       /\ last.answer \in {"accepted", "blank", "untagged"}

\* C22 (as stated): an operation whose remote work succeeded and whose
\* Cache.Save failed returns no error.
C22_SaveFailureNotFatal ==
    (last.saved = "failed" /\ RemoteSucceeded) => IsNil(last.result.error)

\* the same for the Writer alone: a Create, CreateBatch, Complete or Delete
\* that the provider accepted returns no error when Cache.Save fails
WriterSaveFailureNotFatal ==
    (last.saved = "failed" /\ last.op # "sync" /\ RemoteSucceeded) => IsNil(last.result.error)

\* ------------------------------------------------------------------ owner lookup
\* Complete and Delete on a cache that may lack a usable owner id while it
\* holds reminders: zones/list may name the zone with an empty
\* ownerRecordName, which GetOwnerID returns as a success and ownerID caches.

EmptyOwnerAnswer ==
    HttpOK([NoResult EXCEPT !.zones =
               Ptr(<<[zoneName |-> Zone, ownerRecordName |-> Ptr("")]>>)])

OwnerEnvs(c, n) ==
    [zl : IF IsNil(c.OwnerID) \/ Deref(c.OwnerID) = ""
          THEN ZonesListAnswers \cup {EmptyOwnerAnswer} ELSE {HttpFailure(503)},
     mr : {"accepted", "untagged", "rejected"}, sv : SaveOutcomes, now : {Clock(nops)},
     uuid : FreshNames(c, n), answers : {<<>>}]

OwnerCreate ==
    /\ nops < MaxOps
    /\ \E env \in OwnerEnvs(cache, 1) :
         \E out \in AddReminder(cache, file, [NoInput EXCEPT !.title = Milk], env) :
            Ran("create", [NoInput EXCEPT !.title = Milk], env, out, {})

OwnerBatch ==
    /\ nops < MaxOps
    /\ \E env \in OwnerEnvs(cache, 1) :
         \E out \in AddRemindersBatch(cache, file, [NoInput EXCEPT !.titles = <<Eggs>>], env) :
            Ran("batch", [NoInput EXCEPT !.titles = <<Eggs>>], env, out, {})

OwnerComplete ==
    /\ nops < MaxOps
    /\ \E id \in Partials : \E env \in OwnerEnvs(cache, 0) :
         \E out \in CompleteReminder(cache, file, id, env) :
            Ran("complete", [NoInput EXCEPT !.reminderID = id], env, out, {})

OwnerDelete ==
    /\ nops < MaxOps
    /\ \E id \in Partials : \E env \in OwnerEnvs(cache, 0) :
         \E out \in DeleteReminder(cache, file, id, env) :
            Ran("delete", [NoInput EXCEPT !.reminderID = id], env, out, {})

NextOwner == OwnerCreate \/ OwnerBatch \/ OwnerComplete \/ OwnerDelete

SpecOwner == Init /\ [][NextOwner]_vars

\* the step's operation was refused for want of a change tag
RefusedStale(l) ==
    l.op \in {"complete", "delete"} /\ l.result = errResult(StaleError)

\* C23 (as stated): a Complete or Delete refused because the cached record has
\* no change tag makes no network call at all, zones/list included, whether
\* or not the cache holds an owner id.
C23_RefusalMakesNoCall ==
    [][ RefusedStale(last') => net' = <<>> ]_vars

\* a refusal that asked for nothing beyond the owner of the zone: it holds a
\* zones/list call only when the cache had no owner id
RefusalAsksOwnerOnly ==
    [][ RefusedStale(last')
        => net' = (IF cache.OwnerID \in {NilPtr, Ptr("")} THEN <<ZonesListCall>> ELSE <<>>)
      ]_vars

\* the records/modify calls of a step
ModifyCalls(calls) == {i \in 1..Len(calls) : calls[i].path = "records/modify"}

\* a synthetic payload: nothing but a top-level error key
IsSynthetic(result) ==
    ~IsNil(result.error) /\ [result EXCEPT !.error = NilPtr] = NoResult

\* What Complete and Delete return is the map ModifyRecords gave them. For the
\* answers in `failed` it is a synthetic payload; for every other answer it is
\* the decoded body, which has no top-level error key and carries a
\* record-level error inside its records only; the batch went out atomic.
ModifyContract(failed) ==
    (last'.op \in {"complete", "delete"} /\ IssuedModify(net'))
    => LET sent == net'[Len(net')]
       IN /\ \A i \in ModifyCalls(net') : net'[i].atomic
          /\ last'.answer \in failed => IsSynthetic(last'.result)
          /\ last'.answer \notin failed =>
                /\ last'.result = ModifyResponse(last'.answer, sent.operations).val
                /\ IsNil(last'.result.error)
                /\ last'.answer = "rejected" => HasRecordError(last'.result)

\* C24 (as stated): the synthetic payload is returned when the transport
\* fails or the status is outside 200..299, and the decoded response in every
\* other case.
C24_SyntheticOnTransportOrStatus ==
    [][ModifyContract({"transport", "http503"})]_vars

\* C24 (amended): ModifyRecords returns the synthetic payload whenever post
\* fails, which is when the transport fails, the status is outside 200..299 or
\* the body of a 2xx answer is not a JSON object, and the decoded response
\* otherwise; a record-level error is found only inside the records of a
\* decoded response; every batch is submitted with the atomic flag.
C24_SyntheticOnAnyPostFailure ==
    [][ModifyContract({"transport", "http503", "notjson"})]_vars

\* C24 witness: a Complete or Delete whose modify call got a 2xx answer that
\* is not JSON, and returned the synthetic payload
C24_Witness ==
    /\ last.op \in {"complete", "delete"}
    /\ IssuedModify(net)
    /\ last.answer = "notjson"
    /\ last.result = errResult(Err("JSON parse error"))

\* no cached list bears the name, whatever the case of its letters
NoSuchList(c, name) ==
    \A id \in DOMAIN c.Lists : toLower(c.Lists[id]) # toLower(name)

\* no cached reminder has an identifier whose last segment starts with partial
NoSuchReminder(c, partial) ==
    \A rid \in DOMAIN c.Reminders :
       \/ Len(uuidPart(rid)) < Len(partial)
       \/ toLower(SubSeq(uuidPart(rid), 1, Len(partial))) # toLower(partial)

\* the input names a list or a parent the cache does not have
Unresolvable(c, in) ==
    \/ in.listName # <<>> /\ NoSuchList(c, in.listName)
    \/ in.parentID # <<>> /\ NoSuchReminder(c, in.parentID)

ResolutionErrors ==
    {errResult(Err("list not found")), errResult(Err("parent reminder not found"))}

\* what ownerID returns when the owner is not cached and zones/list does not name one
OwnerErrors ==
    {errResult(Err("zones/list failed")), errResult(Err("Reminders zone not found"))}

L2 == <<"L", "/", "d", "2">>

OkName == <<"B", "c">>

PlaceCreates ==
    {[NoInput EXCEPT !.title = Milk],
     [NoInput EXCEPT !.title = Milk, !.listName = <<"b", "c">>],
     [NoInput EXCEPT !.title = Eggs, !.parentID = <<"a">>],
     [NoInput EXCEPT !.title = Eggs, !.listName = <<"s", "h">>, !.parentID = <<"a", "2">>]}

PlaceBatches ==
    {[NoInput EXCEPT !.titles = <<Milk>>, !.parentID = <<"a">>],
     [NoInput EXCEPT !.titles = <<Eggs>>, !.listName = <<"B", "C">>, !.parentID = <<"a", "1">>]}

PlaceAnswers == {"accepted", "rejected", "transport"}

PlaceEnvs(c, n) == {env \in Envs(c, n) : env.mr \in PlaceAnswers}

\* the one page the provider has: both lists and a reminder of the first
PlacePage(c, at) ==
    <<Page(<<ListRecord(L1, ShopName, at), ListRecord(L2, OkName, at),
             ReminderRecord(c, R1, FALSE, at)>>, FALSE, "k1")>>

PlaceSync ==
    /\ nops < MaxOps
    /\ \E zl \in OwnerAnswers(cache) : \E sv \in SaveOutcomes :
         LET env == [zl |-> zl, mr |-> "empty", sv |-> sv, now |-> Clock(nops),
                     uuid |-> <<>>, answers |-> PlacePage(cache, Clock(nops))]
         IN \E out \in Sync(cache, file, FALSE, env) :
              Ran("sync", NoInput, env, out,
                  IF out.result.error = Ptr(Err("get owner ID")) THEN {}
                  ELSE FoldedNames(env.answers))

PlaceCreate ==
    /\ nops < MaxOps
    /\ \E in \in PlaceCreates : \E env \in PlaceEnvs(cache, 1) :
         \E out \in AddReminder(cache, file, in, env) : Ran("create", in, env, out, {})

PlaceBatch ==
    /\ nops < MaxOps
    /\ \E in \in PlaceBatches : \E env \in PlaceEnvs(cache, Len(in.titles)) :
         \E out \in AddRemindersBatch(cache, file, in, env) : Ran("batch", in, env, out, {})

NextPlace == PlaceSync \/ PlaceCreate \/ PlaceBatch

SpecPlace == Init /\ [][NextPlace]_vars

\* the create operations the step submitted
SubmittedOps(calls) ==
    IF IssuedModify(calls) THEN calls[Len(calls)].operations ELSE <<>>

\* C26: in Create and CreateBatch with a parent and no list name, every
\* submitted operation and every cache entry made carries the list of the
\* parent it names (none when the parent has none); with a list name, they
\* carry a list of that name, whatever the parent's list is.
C26_ListOfParentOrNamed ==
    [][ (last'.op \in {"create", "batch"} /\ IssuedModify(net'))
        => LET in == last'.in
               ops == SubmittedOps(net')
               made == {id \in Range(last'.created) : id \in DOMAIN cache'.Reminders}
           IN /\ Len(ops) = Len(last'.created)
              /\ \A i \in 1..Len(ops) :
                    /\ ops[i].recordName = last'.created[i]
                    /\ (in.parentID # <<>> /\ in.listName = <<>>) =>
                          /\ ~IsNil(ops[i].ParentReminder)
                          /\ Deref(ops[i].ParentReminder) \in DOMAIN cache.Reminders
                          /\ ops[i].List
                                = cache.Reminders[Deref(ops[i].ParentReminder)].ListRef
                    /\ in.listName # <<>> =>
                          /\ ~IsNil(ops[i].List)
                          /\ Deref(ops[i].List) \in DOMAIN cache.Lists
                          /\ toLower(cache.Lists[Deref(ops[i].List)]) = toLower(in.listName)
                    /\ ops[i].recordName \in made =>
                          /\ cache'.Reminders[ops[i].recordName].ListRef = ops[i].List
                          /\ cache'.Reminders[ops[i].recordName].ParentRef
                                = ops[i].ParentReminder ]_vars

\* C26 witness: a reminder created under a parent of the second list without
\* a list name is cached in the second list
C26_Witness ==
    /\ last.op \in {"create", "batch"}
    /\ last.in.parentID # <<>>
    /\ last.in.listName = <<>>
    /\ \E id \in Range(last.created) :
          /\ id \in DOMAIN cache.Reminders
          /\ cache.Reminders[id].ListRef = Ptr(L2)
          /\ ~IsNil(cache.Reminders[id].ParentRef)
          /\ cache.Reminders[Deref(cache.Reminders[id].ParentRef)].ListRef = Ptr(L2)

\* a reminder created with a list name under a parent of another list is
\* cached in the named list
NamedListOverParent ==
    /\ last.op \in {"create", "batch"}
    /\ last.in.parentID # <<>>
    /\ last.in.listName # <<>>
    /\ \E id \in Range(last.created) :
          /\ id \in DOMAIN cache.Reminders
          /\ cache.Reminders[id].ListRef = Ptr(L1)
          /\ cache.Reminders[Deref(cache.Reminders[id].ParentRef)].ListRef = Ptr(L2)

\* the cached identifiers whose last segment starts with partial, letters
\* compared without regard to case
Matching(c, partial) ==
    {rid \in DOMAIN c.Reminders :
        /\ Len(uuidPart(rid)) >= Len(partial)
        /\ toLower(SubSeq(uuidPart(rid), 1, Len(partial))) = toLower(partial)}

\* C27: the identifier Complete and Delete get from FindReminderByID is a
\* cached identifier whose last segment starts with the partial id, case
\* aside, whenever there is one, and the empty string when there is none
\* (the operation then answers `reminder not found`).
C27_FindsAMatch ==
    [][ (last'.op \in {"complete", "delete"} /\ last'.result \notin OwnerErrors)
        => LET hits == Matching(cache, last'.in.reminderID)
           IN IF hits # {} THEN last'.fullID \in hits
              ELSE /\ last'.fullID = NoId
                   /\ last'.result = errResult(Err("reminder not found")) ]_vars

\* C27 witness: two cached identifiers match the partial id "A", the synced
\* R/a1 and the created A2, and the lookup returned the first
C27_Witness ==
    /\ last.op = "complete"
    /\ last.in.reminderID = <<"A">>
    /\ {R1, <<"A", "2">>} \subseteq DOMAIN cache.Reminders
    /\ last.fullID = R1

\* with the same two identifiers cached the lookup returned the second
LookupReturnsOther ==
    /\ last.op = "complete"
    /\ last.in.reminderID = <<"A">>
    /\ {R1, <<"A", "2">>} \subseteq DOMAIN cache.Reminders
    /\ last.fullID = <<"A", "2">>

\* ------------------------------------------------------------------ codec, byte level
\* EncodeTitle and ExtractTitle on the bytes they handle. A string is the
\* sequence of its UTF-8 bytes. gzip and base64 are undone exactly by
\* ExtractTitle, so the encoded document is kept as the protobuf message with
\* the mark "gzip", as the documents of the sections above are.

\* the characters titles are made of: a, space, a-umlaut (2 bytes), euro (3 bytes)
Alphabet == {<<97>>, <<32>>, <<195, 164>>, <<226, 130, 172>>}

MaxPrefix == 2

MaxPad == 34

RECURSIVE Flatten(_)
Flatten(runes) == IF runes = <<>> THEN <<>> ELSE Head(runes) \o Flatten(Tail(runes))

\* the titles: up to MaxPrefix characters of the alphabet, then up to MaxPad a's
TitleRunes ==
    {p \o [i \in 1..n |-> <<97>>] :
        p \in UNION {[1..k -> Alphabet] : k \in 0..MaxPrefix}, n \in 0..MaxPad}

\* generateUUID: sixteen random bytes with the version and variant bits set;
\* here sixteen times the byte b
UUIDOf(b) ==
    [i \in 1..16 |-> CASE i = 7 -> (b % 16) + 64
                       [] i = 9 -> (b % 64) + 128
                       [] OTHER -> b]

DocUUIDs == {UUIDOf(1), UUIDOf(65)}

\* EncodeVarint: seven bits a byte, low bits first, the high bit set on all but the last
RECURSIVE EncodeVarint(_)
EncodeVarint(v) ==
    IF v > 127 THEN <<(v % 128) + 128>> \o EncodeVarint(v \div 128) ELSE <<v>>

\* EncodeVarint(0xFFFFFFFF)
SentinelVarint == <<255, 255, 255, 255, 15>>

\* EncodeField: the tag, then the varint (wire type 0) or the length and the bytes (2)
EncodeField(fieldNum, wireType, data) ==
    IF wireType = 0 THEN <<fieldNum * 8 + wireType>> \o EncodeVarint(data)
    ELSE <<fieldNum * 8 + wireType>> \o EncodeVarint(Len(data)) \o data

position(replica, offset) ==
    IF offset = -1 THEN EncodeField(1, 0, replica) \o <<2 * 8>> \o SentinelVarint
    ELSE EncodeField(1, 0, replica) \o EncodeField(2, 0, offset)

\* The character utf8 and regexp read at byte i of text: its code point and
\* its width; a byte that starts no valid sequence is U+FFFD of width 1.
RuneAt(text, i) ==
    LET b == text[i]
        cont(j) == j <= Len(text) /\ text[j] >= 128 /\ text[j] <= 191
    IN CASE b < 128 -> [cp |-> b, w |-> 1]
         [] b >= 194 /\ b <= 223 /\ cont(i + 1) ->
               [cp |-> (b - 192) * 64 + (text[i + 1] - 128), w |-> 2]
         [] b >= 224 /\ b <= 239 /\ cont(i + 1) /\ cont(i + 2)
            /\ (b = 224 => text[i + 1] >= 160) /\ (b = 237 => text[i + 1] <= 159) ->
               [cp |-> (b - 224) * 4096 + (text[i + 1] - 128) * 64 + (text[i + 2] - 128),
                w |-> 3]
         [] b >= 240 /\ b <= 244 /\ cont(i + 1) /\ cont(i + 2) /\ cont(i + 3)
            /\ (b = 240 => text[i + 1] >= 144) /\ (b = 244 => text[i + 1] <= 143) ->
               [cp |-> (b - 240) * 262144 + (text[i + 1] - 128) * 4096
                         + (text[i + 2] - 128) * 64 + (text[i + 3] - 128),
                w |-> 4]
         [] OTHER -> [cp |-> 65533, w |-> 1]

RECURSIVE RuneCountFrom(_, _)
RuneCountFrom(s, i) ==
    IF i > Len(s) THEN 0 ELSE 1 + RuneCountFrom(s, i + RuneAt(s, i).w)

\* utf8.RuneCountInString, len([]rune(s))
RuneCountInString(s) == RuneCountFrom(s, 1)

\* variant: the length is the number of bytes
charLen_Bytes(titleBytes) == Len(titleBytes)

\* charLen of EncodeTitle
charLen(titleBytes) == RuneCountInString(titleBytes)

\* EncodeTitle, up to the compression
EncodeTitleBytes(titleBytes, docUUID) ==
    LET n == charLen(titleBytes)
        op1 == EncodeField(1, 2, position(0, 0)) \o EncodeField(2, 0, 0)
               \o EncodeField(3, 2, position(0, 0)) \o EncodeField(5, 0, 1)
        op2 == EncodeField(1, 2, position(1, 0)) \o EncodeField(2, 0, n)
               \o EncodeField(3, 2, position(1, 0)) \o EncodeField(5, 0, 2)
        op3 == EncodeField(1, 2, position(0, -1)) \o EncodeField(2, 0, 0)
               \o EncodeField(3, 2, position(0, -1))
        clockPayload == EncodeField(1, 0, n)
        replicaPayload == EncodeField(1, 0, 1)
        uuidEntry == EncodeField(1, 2, docUUID) \o EncodeField(2, 2, clockPayload)
                     \o EncodeField(2, 2, replicaPayload)
        metadata == EncodeField(1, 2, uuidEntry)
        attrRun == EncodeField(1, 0, n)
        note == EncodeField(2, 2, titleBytes) \o EncodeField(3, 2, op1)
                \o EncodeField(3, 2, op2) \o EncodeField(3, 2, op3)
                \o EncodeField(4, 2, metadata) \o EncodeField(5, 2, attrRun)
        document == EncodeField(1, 0, 0) \o EncodeField(2, 0, 0) \o EncodeField(3, 2, note)
        outer == EncodeField(1, 0, 0) \o EncodeField(2, 2, document)
    IN [enc |-> "gzip", text |-> outer]

\* the class of printableRe: every character but U+0000-001F and U+007F-009F
InClass(cp) == ~(cp <= 31 \/ (cp >= 127 /\ cp <= 159))

\* the index after the longest run of characters of the class that starts at i
RECURSIVE RunEnd(_, _)
RunEnd(text, i) ==
    IF i > Len(text) THEN i
    ELSE IF InClass(RuneAt(text, i).cp) THEN RunEnd(text, i + RuneAt(text, i).w)
         ELSE i

\* strings.TrimSpace; the only white space a match can hold here is U+0020
TrimBytes(s) ==
    LET idx == {i \in 1..Len(s) : s[i] # 32}
    IN IF idx = {} THEN <<>>
       ELSE SubSeq(s, CHOOSE i \in idx : \A j \in idx : i <= j,
                      CHOOSE i \in idx : \A j \in idx : j <= i)

\* the first match of printableRe from byte i on that has two characters left
\* when trimmed, trimmed
RECURSIVE FirstMatch(_, _)
FirstMatch(text, i) ==
    IF i > Len(text) THEN <<>>
    ELSE LET j == RunEnd(text, i)
             m == SubSeq(text, i, j - 1)
         IN IF j = i THEN FirstMatch(text, i + RuneAt(text, i).w)
            ELSE IF RuneCountInString(m) >= 2 /\ RuneCountInString(TrimBytes(m)) >= 2
                 THEN TrimBytes(m)
                 ELSE FirstMatch(text, j)

\* ExtractTitle on a document EncodeTitle made
ExtractTitleBytes(td) ==
    CASE td.text = <<>> -> <<>>
      [] td.enc = "gzip" -> FirstMatch(td.text, 1)
      [] OTHER -> TrimBytes(td.text)

\* one title goes through the codec: chosen, encoded, decoded
InitCodec ==
    /\ cache = NewCache
    /\ file = NoFile
    /\ net = <<>>
    /\ \E r \in TitleRunes, u \in DocUUIDs :
          last = [op |-> "title", runes |-> r, title |-> Flatten(r), uuid |-> u,
                  doc |-> NoDoc, text |-> <<>>]
    /\ nops = 0
    /\ unsynced = {}
    /\ sessionFile = NoSessionFile
    /\ authn = New
    /\ call = NoCall
    /\ wire = <<>>

Encode ==
    /\ last.op = "title"
    /\ last' = [last EXCEPT !.op = "encoded",
                            !.doc = EncodeTitleBytes(last.title, last.uuid)]
    /\ UNCHANGED <<cache, file, net, nops, unsynced, authVars>>

Decode ==
    /\ last.op = "encoded"
    /\ last' = [last EXCEPT !.op = "decoded", !.text = ExtractTitleBytes(last.doc)]
    /\ UNCHANGED <<cache, file, net, nops, unsynced, authVars>>

NextCodec == Encode \/ Decode

SpecCodec == InitCodec /\ [][NextCodec]_vars

\* C28 (as stated): what ExtractTitle gets out of EncodeTitle(s) is s trimmed.
C28_RoundTrip ==
    last.op = "decoded" => last.text = TrimBytes(last.title)

\* the round trip of a title that has two characters when trimmed and fewer
\* than 32 bytes
RoundTripOfShortTitles ==
    (/\ last.op = "decoded"
     /\ RuneCountInString(TrimBytes(last.title)) >= 2
     /\ Len(last.title) < 32)
    => last.text = TrimBytes(last.title)

\* a title of 33 bytes comes back with the byte that says its length in front
LengthByteLeaks ==
    (/\ last.op = "decoded"
     /\ Len(last.title) > 32)
    => last.text = TrimBytes(<<Len(last.title)>> \o last.title)

\* Reading a protobuf message back: the varint at byte i, and the fields of a
\* message in order, each with its number, its varint (the length for a
\* length-delimited field) and its bytes.
RECURSIVE ReadVarint(_, _)
ReadVarint(b, i) ==
    IF b[i] < 128 THEN [v |-> b[i], next |-> i + 1]
    ELSE LET r == ReadVarint(b, i + 1)
         IN [v |-> (b[i] - 128) + 128 * r.v, next |-> r.next]

RECURSIVE FieldsFrom(_, _)
FieldsFrom(b, i) ==
    IF i > Len(b) THEN <<>>
    ELSE LET r == ReadVarint(b, i + 1)
         IN IF b[i] % 8 = 0
            THEN <<[num |-> b[i] \div 8, v |-> r.v, data |-> <<>>]>> \o FieldsFrom(b, r.next)
            ELSE <<[num |-> b[i] \div 8, v |-> r.v,
                    data |-> SubSeq(b, r.next, r.next + r.v - 1)]>>
                 \o FieldsFrom(b, r.next + r.v)

\* the fields numbered n of the message b
FieldsOf(b, n) == SelectSeq(FieldsFrom(b, 1), LAMBDA f : f.num = n)

\* the note of a document: field 3 of field 2 of the outer message
NoteOf(td) == FieldsOf(FieldsOf(td.text, 2)[1].data, 3)[1].data

\* the length of the insert operation: field 2 of the second operation
InsertLength(td) == FieldsOf(FieldsOf(NoteOf(td), 3)[2].data, 2)[1].v

\* the two payloads that follow the identifier in the metadata's entry
EntryPayloads(td) == FieldsOf(FieldsOf(FieldsOf(NoteOf(td), 4)[1].data, 1)[1].data, 2)

ClockValue(td) == FieldsOf(EntryPayloads(td)[1].data, 1)[1].v

ReplicaID(td) == FieldsOf(EntryPayloads(td)[2].data, 1)[1].v

\* the length of the attribute run
RunLength(td) == FieldsOf(FieldsOf(NoteOf(td), 5)[1].data, 1)[1].v

\* C29: in the document EncodeTitle builds, the length of the insert
\* operation, the clock value of the metadata and the length of the attribute
\* run are the number of characters of the title, whatever its byte length;
\* the title itself is stored whole.
C29_LengthsCountCharacters ==
    last.op \in {"encoded", "decoded"}
    => /\ InsertLength(last.doc) = Len(last.runes)
       /\ ClockValue(last.doc) = Len(last.runes)
       /\ RunLength(last.doc) = Len(last.runes)
       /\ FieldsOf(NoteOf(last.doc), 2)[1].data = last.title

\* C29 witness: a title mixing ASCII and multi-byte characters, with more
\* bytes than characters, was encoded
C29_Witness ==
    /\ last.op = "encoded"
    /\ \E i, j, k \in 1..Len(last.runes) :
          Len(last.runes[i]) = 1 /\ Len(last.runes[j]) = 2 /\ Len(last.runes[k]) = 3
    /\ Len(last.title) > Len(last.runes)
    /\ InsertLength(last.doc) = Len(last.runes)

\* C30 (as stated): the clock value and the replica id of the metadata are
\* both the number of characters of the title.
C30_ClockAndReplicaAreCharCount ==
    last.op \in {"encoded", "decoded"}
    => /\ ClockValue(last.doc) = Len(last.runes)
       /\ ReplicaID(last.doc) = Len(last.runes)

\* the replica id of the metadata is 1 for every title
ReplicaIsOne ==
    last.op \in {"encoded", "decoded"} => ReplicaID(last.doc) = 1

\* ------------------------------------------------------------------ sync, page by page

ListTypes == {"ReminderList", "List"}

\* record i is the last of recs for its identifier
IsLastFor(recs, i) ==
    \A j \in (i + 1)..Len(recs) : recs[j].recordName # recs[i].recordName

\* the cache entry holds the fields of the record
HoldsRecord(c, r) ==
    CASE r.recordType = "Reminder" ->
            /\ r.recordName \in DOMAIN c.Reminders
            /\ LET rd == c.Reminders[r.recordName]
               IN /\ rd.Title = ExtractTitle(getFieldDoc(r.fields, "TitleDocument"))
                  /\ rd.Completed = (getFieldInt(r.fields, "Completed") # 0)
                  /\ rd.Priority = getFieldInt(r.fields, "Priority")
                  /\ rd.ListRef = r.fields.List
                  /\ rd.ParentRef = r.fields.ParentReminder
                  /\ rd.ChangeTag = r.recordChangeTag
                  /\ rd.ModifiedTS = r.modified
      [] r.recordType \in ListTypes ->
            /\ r.recordName \in DOMAIN c.Lists
            /\ c.Lists[r.recordName] = getFieldString(r.fields, "Name")
      [] OTHER -> TRUE

\* the identifier of the record is in neither map of the cache
Gone(c, r) ==
    r.recordName \notin DOMAIN c.Reminders /\ r.recordName \notin DOMAIN c.Lists

Effective(r) ==
    \/ r.recordType = "Reminder"
    \/ r.recordType \in ListTypes
       /\ (SaysDeleted(r) \/ getFieldString(r.fields, "Name") # <<>>)

MaxFetches == 3

\* the Sync calls a run makes
MaxLoopSyncs == 2

\* what the provider answers to a changes fetch: a failure, a response
\* without zones, or a page with or without records, cursor and more-flag
FetchAnswers ==
    LET list == ListRecord(L1, ShopName, 1)
        milk == ReminderRecord(NewCache, R1, FALSE, 1)
    IN {HttpFailure(503), HttpOK([NoResult EXCEPT !.zones = Ptr(<<>>)])}
       \cup {Page(recs, more, token) :
               recs \in {<<>>, <<list, milk>>}, more \in BOOLEAN,
               token \in {"", "k1", "k2"}}

\* what a fetch of the call received
PageOf(answer) ==
    LET data == post(answer)
        zones == IF IsNil(data.result.zones) THEN <<>> ELSE Deref(data.result.zones)
    IN CASE ~IsNil(data.err) ->
              [kind |-> "failed", records |-> <<>>, more |-> FALSE, token |-> ""]
         [] Len(zones) = 0 ->
              [kind |-> "nozones", records |-> <<>>, more |-> FALSE, token |-> ""]
         [] OTHER ->
              [kind |-> "page", records |-> zones[1].records,
               more |-> zones[1].moreComing, token |-> zones[1].syncToken]

\* variant: the loop goes on after a page that says no more is coming
LoopBody_IgnoresFlag(c, f, answer) ==
    LET got == PageOf(answer)
        folded == processRecords(c, got.records)
        next == IF got.token # "" THEN [folded EXCEPT !.SyncToken = Ptr(got.token)]
                ELSE folded
    IN CASE got.kind = "failed" ->
              [c |-> c, file |-> f, pc |-> "failed",
               err |-> Ptr(Err("changes/zone failed"))]
         [] got.kind = "nozones" -> [c |-> c, file |-> f, pc |-> "save", err |-> NilPtr]
         [] OTHER -> [c |-> next, file |-> f, pc |-> "fetch", err |-> NilPtr]

\* variant: the page's cursor is not recorded
LoopBody_KeepsCursor(c, f, answer) ==
    LET got == PageOf(answer)
        folded == processRecords(c, got.records)
    IN CASE got.kind = "failed" ->
              [c |-> c, file |-> f, pc |-> "failed",
               err |-> Ptr(Err("changes/zone failed"))]
         [] got.kind = "nozones" -> [c |-> c, file |-> f, pc |-> "save", err |-> NilPtr]
         [] OTHER -> [c |-> folded, file |-> f,
                      pc |-> IF got.more THEN "fetch" ELSE "save", err |-> NilPtr]

\* variant: the cache file is rewritten after every page
LoopBody_Saves(c, f, answer) ==
    LET got == PageOf(answer)
        folded == processRecords(c, got.records)
        next == IF got.token # "" THEN [folded EXCEPT !.SyncToken = Ptr(got.token)]
                ELSE folded
    IN CASE got.kind = "failed" ->
              [c |-> c, file |-> f, pc |-> "failed",
               err |-> Ptr(Err("changes/zone failed"))]
         [] got.kind = "nozones" -> [c |-> c, file |-> f, pc |-> "save", err |-> NilPtr]
         [] OTHER -> [c |-> next, file |-> [state |-> "written", content |-> next],
                      pc |-> IF got.more THEN "fetch" ELSE "save", err |-> NilPtr]

\* one pass of the loop of Sync on the answer to its fetch: the cache and the
\* cache file after it and where the call goes on ("fetch": the next pass,
\* "save": behind the loop, "failed": the call returns err)
LoopBody(c, f, answer) ==
    LET got == PageOf(answer)
        folded == processRecords(c, got.records)
        next == IF got.token # "" THEN [folded EXCEPT !.SyncToken = Ptr(got.token)]
                ELSE folded
    IN CASE got.kind = "failed" ->
              [c |-> c, file |-> f, pc |-> "failed",
               err |-> Ptr(Err("changes/zone failed"))]
         [] got.kind = "nozones" -> [c |-> c, file |-> f, pc |-> "save", err |-> NilPtr]
         [] OTHER -> [c |-> next, file |-> f,
                      pc |-> IF got.more THEN "fetch" ELSE "save", err |-> NilPtr]

\* no Sync call is in progress
LoopIdle == IF last.op = "loop" THEN last.pc \in {"done", "failed"} ELSE TRUE

\* what `last` says of the calls before: their number, the pages folded into
\* the cache of the Engine since it was last empty, those of them that are
\* in the cache file, and every page folded in the run
Before ==
    IF last.op = "loop" THEN [syncs |-> last.syncs, folded |-> last.folded,
                              stored |-> last.stored, all |-> last.all]
    ELSE [syncs |-> 0, folded |-> <<>>, stored |-> <<>>, all |-> <<>>]

\* Sync up to the loop, in the Engine of the call before or in a new process
\* whose Engine has loaded the cache file: a forced call empties the cache,
\* the owner is looked up when the cache has none
LoopStart ==
    /\ LoopIdle
    /\ Before.syncs < MaxLoopSyncs
    /\ \E force \in BOOLEAN, reload \in BOOLEAN, zl \in ZonesListAnswers :
         LET start == StartCache(IF reload THEN Load(file) ELSE cache, force)
             needOwner == IsNil(start.OwnerID) \/ Deref(start.OwnerID) = ""
             o == GetOwnerID(zl)
             failed == needOwner /\ ~IsNil(o.err)
             owned == IF needOwner /\ ~failed THEN [start EXCEPT !.OwnerID = Ptr(o.id)]
                      ELSE start
         IN /\ cache' = owned
            /\ net' = IF needOwner THEN <<ZonesListCall>> ELSE <<>>
            /\ last' = [op |-> "loop",
                        pc |-> IF failed THEN "failed" ELSE "fetch",
                        force |-> force,
                        reload |-> reload,
                        syncs |-> Before.syncs + 1,
                        answers |-> <<>>,
                        folded |-> CASE force -> <<>>
                                     [] reload -> Before.stored
                                     [] OTHER -> Before.folded,
                        stored |-> Before.stored,
                        all |-> Before.all,
                        file0 |-> file,
                        writes |-> 0,
                        saved |-> "none",
                        result |-> IF failed THEN errResult(Err("get owner ID"))
                                   ELSE NoResult]
    /\ UNCHANGED <<file, nops, unsynced, authVars>>

\* one pass of the loop: the fetch with the cursor of the cache, and what the
\* loop does with the answer
LoopFetch ==
    /\ last.op = "loop"
    /\ last.pc = "fetch"
    /\ nops < MaxFetches
    /\ \E answer \in FetchAnswers :
         LET syncToken == IF IsNil(cache.SyncToken) THEN "" ELSE Deref(cache.SyncToken)
             got == PageOf(answer)
             pass == LoopBody(cache, file, answer)
         IN /\ cache' = pass.c
            /\ file' = pass.file
            /\ net' = Append(net, ChangesZoneCall(Deref(cache.OwnerID), syncToken))
            /\ last' = [last EXCEPT
                          !.pc = pass.pc,
                          !.answers = Append(@, got),
                          !.folded = IF got.kind = "page" THEN Append(@, got) ELSE @,
                          !.all = IF got.kind = "page" THEN Append(@, got) ELSE @,
                          !.stored = IF pass.file # file THEN <<>> ELSE @,
                          !.writes = IF pass.file # file THEN @ + 1 ELSE @,
                          !.result = IF IsNil(pass.err) THEN NoResult
                                     ELSE errResult(Deref(pass.err))]
    /\ nops' = nops + 1
    /\ UNCHANGED <<unsynced, authVars>>

\* behind the loop: Cache.Save, whose failure is the error of the call
LoopSave ==
    /\ last.op = "loop"
    /\ last.pc = "save"
    /\ \E outcome \in SaveOutcomes :
         LET sv == Save(cache, file, Clock(last.syncs), outcome)
         IN /\ cache' = sv.c
            /\ file' = sv.file
            /\ last' = [last EXCEPT
                          !.pc = IF sv.err THEN "failed" ELSE "done",
                          !.writes = @ + 1,
                          !.saved = IF sv.err THEN "failed" ELSE "ok",
                          !.stored = CASE ~sv.err -> last.folded
                                       [] sv.file # file -> <<>>
                                       [] OTHER -> @,
                          !.result = IF sv.err THEN errResult(Err("save cache"))
                                     ELSE NoResult]
    /\ UNCHANGED <<net, nops, unsynced, authVars>>

NextLoop == LoopStart \/ LoopFetch \/ LoopSave

SpecLoop == Init /\ [][NextLoop]_vars

\* the call is not held up: a step of Sync that can be taken is taken
SpecLoopFair == SpecLoop /\ WF_vars(LoopFetch) /\ WF_vars(LoopSave)

\* the answers after which the call made a further changes fetch
Continued == {i \in 1..Len(last.answers) : i < Len(last.answers)}

\* C32: Sync makes no changes fetch after a page without records.
C32_StopsAfterEmptyPage ==
    last.op = "loop"
    => \A i \in 1..Len(last.answers) :
         (last.answers[i].kind = "page" /\ last.answers[i].records = <<>>)
         => i \notin Continued

\* the loop does stop on a response that holds no zone
StopsWithoutZones ==
    last.op = "loop"
    => \A i \in 1..Len(last.answers) :
         last.answers[i].kind = "nozones" => i \notin Continued

\* the call has received a page that says no more is coming and stands
\* behind the loop
FinalPageReceived(n) ==
    /\ last.op = "loop"
    /\ last.syncs = n
    /\ last.pc = "save"
    /\ last.answers # <<>>
    /\ last.answers[Len(last.answers)].kind = "page"
    /\ ~last.answers[Len(last.answers)].more

\* the call has returned after one Save; the cache file holds the cache
\* when the write succeeded
ReturnedSaved(n) ==
    /\ last.op = "loop"
    /\ last.syncs = n
    /\ last.pc \in {"done", "failed"}
    /\ last.writes = 1
    /\ last.saved = "ok" => (last.pc = "done" /\ file.state = "written"
                             /\ file.content = cache)
    /\ last.saved # "ok" => (last.pc = "failed"
                             /\ last.result = errResult(Err("save cache")))

\* C33: Sync makes no changes fetch after a page whose more-flag is false,
\* and a call that has received such a page returns after it has saved the
\* cache.
C33_StopsOnLastPage ==
    /\ [](last.op = "loop"
          => \A i \in 1..Len(last.answers) :
               (last.answers[i].kind = "page" /\ ~last.answers[i].more)
               => i \notin Continued)
    /\ \A n \in 1..MaxLoopSyncs : FinalPageReceived(n) ~> ReturnedSaved(n)

\* C33 witness: the second fetch of a call was answered with a page that says
\* no more is coming, and the call has returned with the cache in the file
C33_Witness ==
    /\ last.op = "loop"
    /\ last.pc = "done"
    /\ Len(last.answers) = 2
    /\ last.answers[1].more
    /\ last.answers[2].kind = "page"
    /\ ~last.answers[2].more
    /\ Cardinality(ChangesFetches(net)) = 2
    /\ file.state = "written"
    /\ file.content = cache

\* the cursor of the most recent of `pages` that carried one ("": none did)
LatestCursor(pages) ==
    LET with == {i \in 1..Len(pages) : pages[i].token # ""}
    IN IF with = {} THEN ""
       ELSE pages[CHOOSE i \in with : \A j \in with : j <= i].token

\* the cursor of the cache ("": none)
CacheCursor == IF IsNil(cache.SyncToken) THEN "" ELSE Deref(cache.SyncToken)

\* the pages the call in progress has folded
FoldedNow == SelectSeq(last.answers, LAMBDA a : a.kind = "page")

\* the cursors the changes fetches of the call carried, in the order of the
\* fetches
SentCursors == [i \in 1..Len(SelectSeq(net, LAMBDA q : q.path = "changes/zone")) |->
                  SelectSeq(net, LAMBDA q : q.path = "changes/zone")[i].syncToken]

FetchingFailed ==
    /\ last.pc = "failed"
    /\ last.saved = "none"

\* C35: a Sync writes the cache file at most once and not before its loop has
\* ended; a Sync that fails in the owner lookup or in a changes fetch
\* returns an error and the cache file is what it was before the call,
\* forced or not.
C35_OneWriteBehindLoop ==
    last.op = "loop"
    => /\ last.writes <= 1
       /\ last.pc \in {"fetch", "save"} => (last.writes = 0 /\ file = last.file0)
       /\ FetchingFailed => /\ ~IsNil(last.result.error)
                            /\ last.writes = 0
                            /\ file = last.file0

\* C35 witness: a forced Sync folded a page into its empty cache and failed on
\* the next fetch; the cache file still holds what an earlier Sync wrote
C35_Witness ==
    /\ last.op = "loop"
    /\ last.force
    /\ FetchingFailed
    /\ Len(last.answers) = 2
    /\ last.answers[1].records # <<>>
    /\ last.answers[2].kind = "failed"
    /\ last.result = errResult(Err("changes/zone failed"))
    /\ file.state = "written"
    /\ file = last.file0
    /\ file.content.Reminders = <<>>
    /\ cache.Reminders # <<>>

\* the call found a saved session, could neither reuse nor refresh it and
\* runs the SRP handshake of go/auth
FellThrough == call.impl = "srp" /\ call.probed = "failed" /\ call.pc # "refresh"

\* C36 (as stated): a handshake that runs after a failed reuse and a failed
\* refresh starts with no session id, no nonce and no session token, as the
\* handshake of a first run does: its requests up to the SRP proof carry no
\* session id and no nonce, and when its trust fetch fails the service
\* exchange and the session it returns have no session token of the file.
C36_FallThroughStartsClean ==
    FellThrough
    => /\ call.pc = "authStart"
          => (authn.sessionID = "" /\ authn.scnt = "" /\ authn.authToken = "")
       /\ \A i \in 1..Len(wire) :
            IsRequest(i, {"federate", "signin/init", "signin/complete"})
            => (wire[i].sessionID = "" /\ wire[i].scnt = "")
       /\ \A i \in 1..Len(wire) :
            (/\ IsRequest(i, {"accountLogin"}) /\ i > 1 /\ TrustFailed(i - 1)
             /\ call.file0.data.SessionToken # "")
            => wire[i].token # call.file0.data.SessionToken
       /\ (/\ call.pc = "done" /\ call.err = NoErr
           /\ call.file0.data.SessionToken # ""
           /\ \E i \in 1..Len(wire) : TrustFailed(i))
          => call.out.SessionToken # call.file0.data.SessionToken

\* the saveSession calls of the call
Saves == {i \in 1..Len(wire) : wire[i].kind = "save"}

\* C39: a call of EnsureSession that returns an error has not called
\* saveSession and leaves the session file as it found it; saveSession is
\* called only behind an accountLogin exchange that succeeded, that of the
\* refresh or that of the handshake, and the file differs from the one the
\* call found only after such a call.
C39_ErrorLeavesSessionFile ==
    call.pc # "idle"
    => /\ (call.pc = "done" /\ call.err # NoErr)
          => (Saves = {} /\ sessionFile = call.file0)
       /\ \A i \in Saves :
            /\ i > 1
            /\ IsRequest(i - 1, {"accountLogin"})
            /\ wire[i - 1].status = 200
            /\ call.pc = "done"
            /\ call.err = NoErr
       /\ sessionFile # call.file0 => Saves # {}

\* C39 witness: a call found a saved session, could neither reuse nor refresh
\* it, ran the handshake and failed in its accountLogin exchange; the session
\* file is the one of the earlier call
C39_Witness ==
    /\ call.pc = "done"
    /\ call.err.msg = "accountLogin HTTP"
    /\ call.probed = "failed"
    /\ Len(wire) > 3
    /\ IsRequest(2, {"accountLogin"})
    /\ IsRequest(Len(wire), {"accountLogin"})
    /\ call.file0.state = "written"
    /\ sessionFile = call.file0
    /\ authn.data # call.file0.data

\* ------------------------------------------------------------------ the fields of a create
\* Create with every optional input present or absent, the due date also as
\* a text that is no date and the priority also as a word that is no priority,
\* after a Sync that brought a list and a reminder of it.

FieldCreates ==
    {[NoInput EXCEPT !.title = Milk, !.dueDate = due, !.priority = more[1],
                     !.notes = more[2], !.listName = place[1], !.parentID = place[2]] :
        due \in {"", "1970-01-03", "soon"},
        more \in {<<"", <<>>>>, <<"high", <<"n", "b">>>>, <<"urgent", <<>>>>},
        place \in {<<<<>>, <<>>>>, <<<<"s", "h">>, <<>>>>, <<<<>>, <<"a">>>>}}

FieldEnvs(c) == {env \in Envs(c, 1) : env.mr \in {"accepted", "rejected"}}

FieldCreate ==
    /\ nops < MaxOps
    /\ \E in \in FieldCreates : \E env \in FieldEnvs(cache) :
         \E out \in AddReminder(cache, file, in, env) : Ran("create", in, env, out, {})

NextField == PlaceSync \/ FieldCreate

SpecField == Init /\ [][NextField]_vars

\* C38 (as stated): the cache entry a successful Create makes has a due date
\* exactly when the submitted operation has a DueDate field, notes exactly
\* when it has a NotesDocument, a priority exactly when it has a Priority,
\* and the list and the parent the operation names.
C38_EntryAgreesWithOp ==
    (last.op = "create" /\ IsNil(last.result.error) /\ IssuedModify(net))
    => LET op == SubmittedOps(net)[1]
           e == cache.Reminders[op.recordName]
       IN /\ IsNil(e.Due) <=> IsNil(op.DueDate)
          /\ IsNil(e.Notes) <=> IsNil(op.NotesDocument)
          /\ (e.Priority = 0) <=> IsNil(op.Priority)
          /\ ~IsNil(op.Priority) => e.Priority = Deref(op.Priority)
          /\ e.ListRef = op.List
          /\ e.ParentRef = op.ParentReminder

\* but for the due date the entry and the operation agree
EntryAgreesButForDue ==
    (last.op = "create" /\ IsNil(last.result.error) /\ IssuedModify(net))
    => LET op == SubmittedOps(net)[1]
           e == cache.Reminders[op.recordName]
       IN /\ ~IsNil(op.DueDate) => ~IsNil(e.Due)
          /\ IsNil(e.Notes) <=> IsNil(op.NotesDocument)
          /\ (e.Priority = 0) <=> IsNil(op.Priority)
          /\ ~IsNil(op.Priority) => e.Priority = Deref(op.Priority)
          /\ e.ListRef = op.List
          /\ e.ParentRef = op.ParentReminder

\* the step was a Complete that the provider answered without error and with
\* a change tag for the record
CompletedWithTag ==
    /\ last.op = "complete"
    /\ IssuedModify(net)
    /\ IsNil(last.result.error)
    /\ ~IsNil(ResponseTag(last.result))

\* C37: after a Complete answered without error and with a change tag, the
\* cached change tag of the reminder is the tag of the response, and a Delete
\* of that reminder in the next step submits the tag of the response.
C37_DeleteSubmitsCompleteTag ==
    /\ [](CompletedWithTag
          => cache.Reminders[last.fullID].ChangeTag = ResponseTag(last.result))
    /\ [][ (/\ CompletedWithTag
            /\ last'.op = "delete"
            /\ last'.fullID = last.fullID
            /\ IssuedModify(net'))
           => /\ Len(SubmittedOps(net')) = 1
              /\ SubmittedOps(net')[1].operationType = "delete"
              /\ SubmittedOps(net')[1].recordName = last.fullID
              /\ SubmittedOps(net')[1].recordChangeTag = ResponseTag(last.result) ]_vars

\* C37 witness: the third step deleted a reminder that a Sync had brought
\* with the tag "s1", and submitted the tag "w1" that the answer to the
\* Complete in between carried
C37_Witness ==
    /\ last.op = "delete"
    /\ nops = 3
    /\ last.fullID = R1
    /\ last.answer = "accepted"
    /\ IssuedModify(net)
    /\ SubmittedOps(net)[1].operationType = "delete"
    /\ SubmittedOps(net)[1].recordChangeTag = Ptr("w1")
    /\ R1 \notin DOMAIN cache.Reminders

\* ------------------------------------------------------------------ the frame of an echo
\* Sync, Create, Complete and Delete of one Writer, with a provider that may
\* name no owner in its answer to zones/list: the cache of a Complete or a
\* Delete holds an owner id, an empty one or none.

FrameCreates ==
    {[NoInput EXCEPT !.title = Milk],
     [NoInput EXCEPT !.title = Eggs, !.parentID = <<"a">>]}

FrameCreate ==
    /\ nops < MaxOps
    /\ \E in \in FrameCreates : \E env \in OwnerEnvs(cache, 1) :
         \E out \in AddReminder(cache, file, in, env) : Ran("create", in, env, out, {})

NextFrame == PlaceSync \/ FrameCreate \/ OwnerComplete \/ OwnerDelete

SpecFrame == Init /\ [][NextFrame]_vars

\* the step submitted its operation and the map it returned has no error
Echoed(l, calls) == IssuedModify(calls) /\ IsNil(l.result.error)

\* the cache holds the owner of the zone
OwnerCached(c) == ~IsNil(c.OwnerID) /\ Deref(c.OwnerID) # ""

\* all of a cache entry but what Complete sets
Unset(rd) == [rd EXCEPT !.Completed = FALSE, !.CompletionDate = NilPtr,
                        !.ChangeTag = NilPtr]

\* what a Delete that went through does to the reminders: it removes the one
\* it resolved and nothing else
DeleteFrame ==
    /\ last'.fullID \in DOMAIN cache.Reminders
    /\ cache'.Reminders = MapDelete(cache.Reminders, last'.fullID)

\* what a Complete that went through does to the reminders: it changes the
\* completed flag, the completion date and the change tag of the one it
\* resolved and nothing else
CompleteFrame ==
    /\ last'.fullID \in DOMAIN cache.Reminders
    /\ DOMAIN cache'.Reminders = DOMAIN cache.Reminders
    /\ \A id \in DOMAIN cache.Reminders :
          IF id = last'.fullID
          THEN /\ Unset(cache'.Reminders[id]) = Unset(cache.Reminders[id])
               /\ cache'.Reminders[id].Completed
          ELSE cache'.Reminders[id] = cache.Reminders[id]

\* C40 (as stated): a Delete that went through removes the reminder it
\* resolved and leaves the other reminders, the lists, the cursor and the
\* owner id; a Complete that went through changes three fields of the
\* reminder it resolved and nothing else.
C40_FrameOfDeleteAndComplete ==
    [][ /\ (last'.op = "delete" /\ Echoed(last', net'))
           => /\ DeleteFrame
              /\ cache'.Lists = cache.Lists
              /\ cache'.SyncToken = cache.SyncToken
              /\ cache'.OwnerID = cache.OwnerID
        /\ (last'.op = "complete" /\ Echoed(last', net'))
           => /\ CompleteFrame
              /\ cache'.Lists = cache.Lists
              /\ cache'.SyncToken = cache.SyncToken
              /\ cache'.OwnerID = cache.OwnerID ]_vars

\* C40 (amended): as stated for the reminders, the lists and the cursor; the
\* owner id stays when the cache holds one, and is the one zones/list named
\* when the cache held none or an empty one.
C40_FrameButOwnerLookup ==
    [][ (last'.op \in {"delete", "complete"} /\ Echoed(last', net'))
        => /\ last'.op = "delete" => DeleteFrame
           /\ last'.op = "complete" => CompleteFrame
           /\ cache'.Lists = cache.Lists
           /\ cache'.SyncToken = cache.SyncToken
           /\ IF OwnerCached(cache)
              THEN cache'.OwnerID = cache.OwnerID /\ net'[1].path = "records/modify"
              ELSE /\ net'[1] = ZonesListCall
                   /\ cache'.OwnerID # NilPtr ]_vars

\* C40 witness: a reminder with a subtask was deleted; the subtask is cached
\* and names it as its parent, the list and the cursor of the Sync are there
C40_Witness ==
    /\ last.op = "delete"
    /\ Echoed(last, net)
    /\ last.fullID = R1
    /\ R1 \notin DOMAIN cache.Reminders
    /\ \E id \in DOMAIN cache.Reminders : cache.Reminders[id].ParentRef = Ptr(R1)
    /\ DOMAIN cache.Lists = {L1, L2}
    /\ cache.SyncToken = Ptr("k1")
    /\ cache.OwnerID = Ptr("_o1")

====
